---- MODULE Spec2Model ----
(***************************************************************************)
(* A model of libcache's composition layer: the Multilayer, Replication   *)
(* and Distribution composites over abstract backend adapters.            *)
(*                                                                         *)
(* Conventions.                                                            *)
(*  - A backend adapter (a child) is a store: a function from keys to an  *)
(*    optional value.  Python's None is the empty set {} and a stored      *)
(*    value v is the singleton {v}.                                        *)
(*  - Every call on a child either succeeds (the child applies it and     *)
(*    reports success) or fails (the child reports failure and its store  *)
(*    is unchanged); the outcome is chosen with \E in each action.        *)
(*  - Python lists are 0-based; the sequences here are 1-based, so layer  *)
(*    i of the model is self._clients[i-1] of the source.                 *)
(*  - Each composite records its last call in <c>_op, the value it        *)
(*    returned in <c>_ret and the child calls it issued, in order, in     *)
(*    <c>_calls.                                                           *)
(*  - A composite takes a call only when idle (<c>_op = NoOp); the call  *)
(*    runs to completion in one step and leaves its record; the caller's  *)
(*    return step drops the record and makes the composite idle again.    *)
(*  - Init is the state the constructors' assignments describe (the child *)
(*    table filled from the configuration, CacheBase.__init__ having set  *)
(*    self._client = None).                                                *)
(***************************************************************************)
EXTENDS Integers, Sequences, FiniteSets, TLC

\* ------------------------------------------------------------------ bounds
NLayers == 3
NChildren == 3
MaxVal == 2
NShards == 2
Replica == 3
RingSize == 16
MaxKeys == 2
MaxTime == 4
MaxTimeout == 2

\* ------------------------------------------------------------- vocabulary
Keys == {"x"}
Values == 1..MaxVal
Deltas == {1}
None == {}

RBool(b) == [kind |-> "bool", b |-> b]
RVal(v) == [kind |-> "value", v |-> v]
RNone == [kind |-> "None"]
RRaise(e) == [kind |-> "raised", exc |-> e]
\* A Python return value that is an optional number.
ROpt(o) == IF o = None THEN RNone ELSE RVal(CHOOSE v \in o : TRUE)

Call(c, op, ok) == [child |-> c, op |-> op, ok |-> ok]
NoOp == [name |-> "none"]

SetMin(S) == CHOOSE m \in S : \A n \in S : m <= n

VARIABLES
    layers,     \* Multilayer._clients: layers[i] is the store of layer i
    ml_hash,    \* ml_hash[i][k]: what layer i holds in field f of the hash k
    ml_op,      \* the last Multilayer call
    ml_ret,     \* what it returned
    ml_calls,   \* the child calls it issued, in order
    rp_clients, \* Replication._clients: rp_clients[i] is the store of child i
    rp_primary, \* Replication._primary_cache: {} or {i}
    rp_op,
    rp_ret,
    rp_calls,
    dist_config, \* Distribution's construction parameters: _method, _factor
    dist_client, \* Distribution._client: child id -> the child's store
    dist_op,
    dist_ret,
    dist_calls,
    mem_timeout,   \* Memory.timeout: the adapter's default timeout
    mem_store,     \* Memory._store: key -> {} or {[timeout, value]}
    mem_last_trim, \* Memory._last_trim_time
    mem_now,       \* what time.time() returns
    mem_written,   \* history: the last set of each key (value, instant, timeout given)
    mem_op,
    mem_ret,
    callers        \* two concurrent calls on one composite: where each of them is

ml_vars == <<layers, ml_hash, ml_op, ml_ret, ml_calls>>
rp_vars == <<rp_clients, rp_primary, rp_op, rp_ret, rp_calls>>
dist_vars == <<dist_config, dist_client, dist_op, dist_ret, dist_calls>>
mem_vars == <<mem_timeout, mem_store, mem_last_trim, mem_now, mem_written, mem_op, mem_ret>>
vars == <<ml_vars, rp_vars, dist_vars, mem_vars, callers>>
\* What a call on one composite leaves alone: the other composites (and,
\* for Multilayer, the hashes in a scalar call and the scalars in a hash call).
ml_others == <<ml_hash, rp_vars, dist_vars, mem_vars, callers>>
mlh_others == <<layers, rp_vars, dist_vars, mem_vars, callers>>
rp_others == <<ml_vars, dist_vars, mem_vars, callers>>
dist_others == <<ml_vars, rp_vars, mem_vars, callers>>
mem_others == <<ml_vars, rp_vars, dist_vars, callers>>

EmptyStore == [k \in Keys |-> None]

\* ------------------------------------------------------- backend adapter
\* The contract of one child call, as the in-memory adapter implements it.
ChildGet(store, key) == store[key]
ChildSet(store, key, value) == [store EXCEPT ![key] = {value}]
ChildDelete(store, key) == [store EXCEPT ![key] = None]
ChildDeleteMany(store, keys) == [k \in DOMAIN store |-> IF k \in keys THEN None ELSE store[k]]
ChildClear(store) == [k \in DOMAIN store |-> None]
\* incr: an absent key is initialised to delta, a number n becomes n + delta.
ChildIncrValue(store, key, delta) ==
    IF store[key] = None THEN delta ELSE (CHOOSE v \in store[key] : TRUE) + delta
ChildIncr(store, key, delta) == [store EXCEPT ![key] = {ChildIncrValue(store, key, delta)}]

\* ------------------------------------------------------------ Multilayer
Primary == NLayers
\* The non-primary layers taken in construction order (self._clients[:-1]).
ReversedCaches_ascending == [j \in 1..(NLayers - 1) |-> j]

\* self._reversed_caches = self._clients[-2::-1]: the non-primary layers,
\* from the one next to the primary down to layer 1.
ReversedCaches == [j \in 1..(NLayers - 1) |-> NLayers - j]

MLInit ==
    /\ layers = [i \in 1..NLayers |-> EmptyStore]
    /\ ml_hash = [i \in 1..NLayers |-> EmptyStore]
    /\ ml_op = NoOp
    /\ ml_ret = RNone
    /\ ml_calls = << >>

\* The calls "for client in self._reversed_caches: client.<op>(...)" issues.
FanOutCalls(op, oks) == [j \in 1..(NLayers - 1) |-> Call(ReversedCaches[j], op, oks[ReversedCaches[j]])]

\* The layers after the primary and then every other layer were asked to
\* apply the write; layer i applied it iff oks[i], and then holds after[i].
FanOutLayers(oks, after) == [i \in 1..NLayers |-> IF oks[i] THEN after[i] ELSE layers[i]]

\* "if not primary.<op>(...): return False; for client in reversed: client.<op2>(...); return True"
PrimaryThenRest(op, op2, oks, after) ==
    IF ~oks[Primary]
    THEN /\ layers' = layers
         /\ ml_ret' = RBool(FALSE)
         /\ ml_calls' = << Call(Primary, op, FALSE) >>
    ELSE /\ layers' = FanOutLayers(oks, after)
         /\ ml_ret' = RBool(TRUE)
         /\ ml_calls' = << Call(Primary, op, TRUE) >> \o FanOutCalls(op2, oks)

\* A fan-out that gives up at the first non-primary layer reporting failure
\* and folds the layers' reports into the result.
Multilayer_set_stops(key, value, oks) ==
    LET bad == {i \in 1..(NLayers - 1) : ~oks[i]}
        stop == IF bad = {} THEN 0 ELSE CHOOSE m \in bad : \A n \in bad : n <= m
    IN
    /\ ml_op = NoOp
    /\ ml_op' = [name |-> "set", key |-> key, value |-> value]
    /\ UNCHANGED ml_others
    /\ IF ~oks[Primary]
       THEN /\ layers' = layers
            /\ ml_ret' = RBool(FALSE)
            /\ ml_calls' = << Call(Primary, "set", FALSE) >>
       ELSE /\ layers' = [i \in 1..NLayers |->
                            IF oks[i] /\ i > stop THEN ChildSet(layers[i], key, value) ELSE layers[i]]
            /\ ml_ret' = RBool(stop = 0)
            /\ ml_calls' = << Call(Primary, "set", TRUE) >> \o
                           [j \in 1..(IF stop = 0 THEN NLayers - 1 ELSE NLayers - stop) |->
                               Call(ReversedCaches[j], "set", oks[ReversedCaches[j]])]

Multilayer_set(key, value, oks) ==
    /\ ml_op = NoOp
    /\ ml_op' = [name |-> "set", key |-> key, value |-> value]
    /\ UNCHANGED ml_others
    /\ LET after == [i \in 1..NLayers |-> ChildSet(layers[i], key, value)]
       IN PrimaryThenRest("set", "set", oks, after)

\* hset / hdel follow set's shape, on the hashes.  One field per hash is
\* modelled.
HashPrimaryThenRest(op, oks, after) ==
    IF ~oks[Primary]
    THEN /\ ml_hash' = ml_hash
         /\ ml_ret' = RBool(FALSE)
         /\ ml_calls' = << Call(Primary, op, FALSE) >>
    ELSE /\ ml_hash' = [i \in 1..NLayers |-> IF oks[i] THEN after[i] ELSE ml_hash[i]]
         /\ ml_ret' = RBool(TRUE)
         /\ ml_calls' = << Call(Primary, op, TRUE) >> \o FanOutCalls(op, oks)

Multilayer_hset(key, value, oks) ==
    /\ ml_op = NoOp
    /\ ml_op' = [name |-> "hset", key |-> key, value |-> value]
    /\ UNCHANGED mlh_others
    /\ LET after == [i \in 1..NLayers |-> ChildSet(ml_hash[i], key, value)]
       IN HashPrimaryThenRest("hset", oks, after)

Multilayer_hdel(key, oks) ==
    /\ ml_op = NoOp
    /\ ml_op' = [name |-> "hdel", key |-> key]
    /\ UNCHANGED mlh_others
    /\ LET after == [i \in 1..NLayers |-> ChildDelete(ml_hash[i], key)]
       IN HashPrimaryThenRest("hdel", oks, after)

\* hget: "for i in range(len(clients)): value = clients[i].hget(...); if
\* value is not None: for j in range(i-1, -1, -1): clients[j].hset(...)".
\* The outer loop has no return: it goes on to the slower layers after a
\* hit, each hit is written into all the layers before it, and the method
\* ends without a return statement, i.e. returns None.
HgetHits(key) == {i \in 1..NLayers : ChildGet(ml_hash[i], key) # None}

\* The calls of one round of the outer loop.
HgetRound(i, key, oks) ==
    << Call(i, "hget", i \in HgetHits(key)) >> \o
        (IF i \in HgetHits(key) THEN [n \in 1..(i - 1) |-> Call(i - n, "hset", oks[i - n])]
         ELSE << >>)

RECURSIVE HgetCalls(_, _, _)
HgetCalls(i, key, oks) ==
    IF i = 0 THEN << >> ELSE HgetCalls(i - 1, key, oks) \o HgetRound(i, key, oks)

\* Layer j ends with the value of the slowest hit after it, when its hset
\* succeeds.
HgetLayers(key, oks) ==
    [j \in 1..NLayers |->
        LET later == {i \in HgetHits(key) : i > j}
        IN IF later # {} /\ oks[j]
           THEN ChildSet(ml_hash[j], key,
                         CHOOSE v \in Values :
                            ChildGet(ml_hash[CHOOSE i \in later : \A m \in later : m <= i], key) = {v})
           ELSE ml_hash[j]]

Multilayer_hget(key, oks) ==
    /\ ml_op = NoOp
    /\ ml_op' = [name |-> "hget", key |-> key]
    /\ UNCHANGED mlh_others
    /\ ml_hash' = HgetLayers(key, oks)
    /\ ml_ret' = RNone
    /\ ml_calls' = HgetCalls(NLayers, key, oks)

\* A hash on one layer changed without going through the composite.
Layer_direct_hset(i, key, value) ==
    /\ ml_hash' = [ml_hash EXCEPT ![i] = ChildSet(ml_hash[i], key, value)]
    /\ ml_op = NoOp
    /\ UNCHANGED <<ml_op, ml_ret, ml_calls, mlh_others>>

Layer_direct_hdel(i, key) ==
    /\ ml_hash' = [ml_hash EXCEPT ![i] = ChildDelete(ml_hash[i], key)]
    /\ ml_op = NoOp
    /\ UNCHANGED <<ml_op, ml_ret, ml_calls, mlh_others>>

\* The primary's set_not_overwrite refuses when it holds the key.
\* A variant that hands set_not_overwrite down to the other layers too: a
\* layer holding the key keeps what it holds.
Multilayer_set_not_overwrite_all(key, value, oks) ==
    /\ ml_op = NoOp
    /\ ml_op' = [name |-> "set_not_overwrite", key |-> key, value |-> value]
    /\ UNCHANGED ml_others
    /\ (ChildGet(layers[Primary], key) # None => ~oks[Primary])
    /\ LET after == [i \in 1..NLayers |->
                       IF i # Primary /\ ChildGet(layers[i], key) # None
                       THEN layers[i] ELSE ChildSet(layers[i], key, value)]
       IN PrimaryThenRest("set_not_overwrite", "set_not_overwrite", oks, after)

Multilayer_set_not_overwrite(key, value, oks) ==
    /\ ml_op = NoOp
    /\ ml_op' = [name |-> "set_not_overwrite", key |-> key, value |-> value]
    /\ UNCHANGED ml_others
    /\ (ChildGet(layers[Primary], key) # None => ~oks[Primary])
    /\ LET after == [i \in 1..NLayers |-> ChildSet(layers[i], key, value)]
       IN PrimaryThenRest("set_not_overwrite", "set", oks, after)

\* set_many evaluates the undefined name `data` before any child is called.
Multilayer_set_many(keys, value) ==
    /\ ml_op = NoOp
    /\ ml_op' = [name |-> "set_many", keys |-> keys, value |-> value]
    /\ UNCHANGED ml_others
    /\ layers' = layers
    /\ ml_ret' = RRaise("NameError")
    /\ ml_calls' = << >>

\* A scan that prefers the slowest layer holding the key.
SlowestHit(key) ==
    LET hits == {i \in 1..NLayers : ChildGet(layers[i], key) # None}
    IN IF hits = {} THEN 0 ELSE CHOOSE i \in hits : \A j \in hits : j <= i

\* The first layer, scanning from the fastest, whose get returns a value
\* (0 when none does).
FirstHit(key) ==
    LET hits == {i \in 1..NLayers : ChildGet(layers[i], key) # None}
    IN IF hits = {} THEN 0 ELSE SetMin(hits)

\* get scans the layers upward; on a hit at layer i > 1 the promotion loop
\* indexes self._client (None, never the layer list) and raises before any
\* layer is written.  With no hit the loop ends and None is returned.
GetResult(key) ==
    LET i == FirstHit(key) IN
    IF i = 0 THEN RNone
    ELSE IF i = 1 THEN ROpt(ChildGet(layers[i], key))
    ELSE RRaise("TypeError")

GetCalls(key) ==
    LET i == FirstHit(key) IN
    IF i = 0 THEN [j \in 1..NLayers |-> Call(j, "get", FALSE)]
    ELSE [j \in 1..i |-> Call(j, "get", j = i)]

\* A get that writes the value it found into every layer, the slower ones
\* included.
Multilayer_get_refresh(key) ==
    /\ ml_op = NoOp
    /\ ml_op' = [name |-> "get", key |-> key]
    /\ UNCHANGED ml_others
    /\ layers' = IF FirstHit(key) = 0 THEN layers
                 ELSE [i \in 1..NLayers |-> [layers[i] EXCEPT ![key] = layers[FirstHit(key)][key]]]
    /\ ml_ret' = GetResult(key)
    /\ ml_calls' = GetCalls(key)

Multilayer_get(key) ==
    /\ ml_op = NoOp
    /\ ml_op' = [name |-> "get", key |-> key]
    /\ UNCHANGED ml_others
    /\ layers' = layers
    /\ ml_ret' = GetResult(key)
    /\ ml_calls' = GetCalls(key)

\* The reads other than get and hget are handed to the primary:
\* "return self._primary_cache.<op>(...)".
\* An answer taken from the fastest layer.
FastestAnswer(key) == ChildGet(layers[1], key)

PrimaryAnswer(key) == ChildGet(layers[Primary], key)

Multilayer_get_values(keys) ==
    /\ ml_op = NoOp
    /\ ml_op' = [name |-> "get_values", keys |-> keys]
    /\ UNCHANGED <<layers, ml_others>>
    /\ ml_ret' = [kind |-> "values", of |-> [k \in keys |-> PrimaryAnswer(k)]]
    /\ ml_calls' = << Call(Primary, "get_values", TRUE) >>

Multilayer_get_key_to_value(keys) ==
    /\ ml_op = NoOp
    /\ ml_op' = [name |-> "get_key_to_value", keys |-> keys]
    /\ UNCHANGED <<layers, ml_others>>
    /\ ml_ret' = [kind |-> "values", of |-> [k \in keys |-> PrimaryAnswer(k)]]
    /\ ml_calls' = << Call(Primary, "get_key_to_value", TRUE) >>

\* hgetall and the list, set and sorted-set reads; what a layer holds
\* under the key stands for the hash, list or set it holds.
MLPrimaryReads == {"hgetall", "hexists", "hlen", "lindex", "llen", "lrange", "scard",
                   "sismember", "smembers", "srandmember", "zcard", "zcount", "zrange",
                   "zrangebyscore", "zrank", "zscore"}

Multilayer_read(op, key) ==
    /\ ml_op = NoOp
    /\ ml_op' = [name |-> op, key |-> key]
    /\ UNCHANGED <<layers, ml_others>>
    /\ ml_ret' = [kind |-> "answer", of |-> PrimaryAnswer(key)]
    /\ ml_calls' = << Call(Primary, op, TRUE) >>

\* block_left_pop / block_right_pop: "return self._primary_cache.<op>(key,
\* timeout)".  What the primary holds under the key stands for a list of
\* one element, which the pop takes; on an empty list the child answers
\* None when its wait ends.
BlockingPops == {"block_left_pop", "block_right_pop"}

Multilayer_block_pop(op, key) ==
    /\ ml_op = NoOp
    /\ ml_op' = [name |-> op, key |-> key]
    /\ UNCHANGED ml_others
    /\ layers' = [layers EXCEPT ![Primary] = ChildDelete(layers[Primary], key)]
    /\ ml_ret' = ROpt(ChildGet(layers[Primary], key))
    /\ ml_calls' = << Call(Primary, op, ChildGet(layers[Primary], key) # None) >>

\* The list, set and sorted-set mutations and expire: "return
\* self._primary_cache.<op>(...)".  content is what the primary holds under
\* the key once the call has succeeded.
MLPrimaryWrites == {"lpush", "rpush", "lpop", "rpop", "ltrim", "sadd", "sadd_many", "srem",
                    "zadd", "zincrby", "zrem", "zremrangebyrank", "zunionstore", "expire"}

\* A variant that, like incr, deletes the key from the other layers.
Multilayer_mutate_invalidating(op, key, content, ok) ==
    /\ ml_op = NoOp
    /\ ml_op' = [name |-> op, key |-> key]
    /\ UNCHANGED ml_others
    /\ layers' = [i \in 1..NLayers |->
                    IF i = Primary THEN (IF ok THEN [layers[i] EXCEPT ![key] = content] ELSE layers[i])
                    ELSE ChildDelete(layers[i], key)]
    /\ ml_ret' = [kind |-> "answer", of |-> IF ok THEN content ELSE None]
    /\ ml_calls' = << Call(Primary, op, ok) >> \o FanOutCalls("delete", [i \in 1..NLayers |-> TRUE])

Multilayer_mutate(op, key, content, ok) ==
    /\ ml_op = NoOp
    /\ ml_op' = [name |-> op, key |-> key]
    /\ UNCHANGED ml_others
    /\ layers' = IF ok THEN [layers EXCEPT ![Primary][key] = content] ELSE layers
    /\ ml_ret' = [kind |-> "answer", of |-> IF ok THEN content ELSE None]
    /\ ml_calls' = << Call(Primary, op, ok) >>

\* zremrangebyscore: "return self._primary_cache.zremrangebescore(key, min,
\* max)": no cache has an attribute of that name, so the lookup raises
\* AttributeError before any child is called.
Multilayer_zremrangebyscore(key) ==
    /\ ml_op = NoOp
    /\ ml_op' = [name |-> "zremrangebyscore", key |-> key]
    /\ UNCHANGED <<layers, ml_others>>
    /\ ml_ret' = RRaise("AttributeError")
    /\ ml_calls' = << >>

Multilayer_delete(key, oks) ==
    /\ ml_op = NoOp
    /\ ml_op' = [name |-> "delete", key |-> key]
    /\ UNCHANGED ml_others
    /\ LET after == [i \in 1..NLayers |-> ChildDelete(layers[i], key)]
       IN PrimaryThenRest("delete", "delete", oks, after)

Multilayer_delete_many(keys, oks) ==
    /\ ml_op = NoOp
    /\ ml_op' = [name |-> "delete_many", keys |-> keys]
    /\ UNCHANGED ml_others
    /\ LET after == [i \in 1..NLayers |-> ChildDeleteMany(layers[i], keys)]
       IN PrimaryThenRest("delete_many", "delete_many", oks, after)

Multilayer_clear(oks) ==
    /\ ml_op = NoOp
    /\ ml_op' = [name |-> "clear"]
    /\ UNCHANGED ml_others
    /\ LET after == [i \in 1..NLayers |-> ChildClear(layers[i])]
       IN PrimaryThenRest("clear", "clear", oks, after)

\* An incr on the primary that leaves the other layers' copies alone.
IncrThenInvalidate_keeping(op, key, delta, oks) ==
    /\ ChildIncrValue(layers[Primary], key, delta) \in Values
    /\ layers' = [layers EXCEPT ![Primary] = IF oks[Primary] THEN ChildIncr(@, key, delta) ELSE @]
    /\ ml_ret' = IF oks[Primary] THEN RVal(ChildIncrValue(layers[Primary], key, delta)) ELSE RNone
    /\ ml_calls' = << Call(Primary, op, oks[Primary]) >>

\* incr: the primary's result is kept whatever it is, then every other
\* layer is asked to delete the key; the deletes' results are ignored.
IncrThenInvalidate(op, key, delta, oks) ==
    /\ ChildIncrValue(layers[Primary], key, delta) \in Values
    /\ layers' = [i \in 1..NLayers |->
                    IF ~oks[i] THEN layers[i]
                    ELSE IF i = Primary THEN ChildIncr(layers[i], key, delta)
                    ELSE ChildDelete(layers[i], key)]
    /\ ml_ret' = IF oks[Primary] THEN RVal(ChildIncrValue(layers[Primary], key, delta)) ELSE RNone
    /\ ml_calls' = << Call(Primary, op, oks[Primary]) >> \o FanOutCalls("delete", oks)

Multilayer_incr(key, delta, oks) ==
    /\ ml_op = NoOp
    /\ ml_op' = [name |-> "incr", key |-> key, delta |-> delta]
    /\ UNCHANGED ml_others
    /\ IncrThenInvalidate("incr", key, delta, oks)

Multilayer_decr(key, delta, oks) ==
    /\ ml_op = NoOp
    /\ ml_op' = [name |-> "decr", key |-> key, delta |-> delta]
    /\ UNCHANGED ml_others
    /\ IncrThenInvalidate("decr", key, 0 - delta, oks)

\* A layer is a cache of its own: another client, or the layer's eviction,
\* may set or delete a key on it without going through the composite.
Layer_direct_set(i, key, value) ==
    /\ layers' = [layers EXCEPT ![i] = ChildSet(layers[i], key, value)]
    /\ ml_op = NoOp
    /\ UNCHANGED <<ml_op, ml_ret, ml_calls, ml_others>>

Layer_direct_delete(i, key) ==
    /\ layers' = [layers EXCEPT ![i] = ChildDelete(layers[i], key)]
    /\ ml_op = NoOp
    /\ UNCHANGED <<ml_op, ml_ret, ml_calls, ml_others>>

\* The caller has the result; the composite is ready for the next call.
Multilayer_return ==
    /\ ml_op # NoOp
    /\ ml_op' = NoOp
    /\ ml_ret' = RNone
    /\ ml_calls' = << >>
    /\ UNCHANGED <<layers, ml_others>>

Outcomes == [1..NLayers -> BOOLEAN]

\* A call is made on the composite only while it is idle: the arguments
\* of a call are drawn then.
MLInputs(S) == IF ml_op = NoOp THEN S ELSE {}

MLNext ==
    \/ \E k \in MLInputs(Keys), v \in Values, oks \in Outcomes : Multilayer_set(k, v, oks)
    \/ \E k \in MLInputs(Keys), v \in Values, oks \in Outcomes : Multilayer_set_not_overwrite(k, v, oks)
    \/ \E ks \in MLInputs(SUBSET Keys), v \in Values : Multilayer_set_many(ks, v)
    \/ \E k \in MLInputs(Keys) : Multilayer_get(k)
    \/ \E ks \in MLInputs(SUBSET Keys) : Multilayer_get_values(ks)
    \/ \E ks \in MLInputs(SUBSET Keys) : Multilayer_get_key_to_value(ks)
    \/ \E op \in MLInputs(MLPrimaryReads), k \in Keys : Multilayer_read(op, k)
    \/ \E op \in MLInputs(BlockingPops), k \in Keys : Multilayer_block_pop(op, k)
    \/ \E k \in MLInputs(Keys) : Multilayer_zremrangebyscore(k)
    \/ \E op \in MLInputs(MLPrimaryWrites), k \in Keys, content \in {None} \cup {{v} : v \in Values},
          ok \in BOOLEAN : Multilayer_mutate(op, k, content, ok)
    \/ \E k \in MLInputs(Keys), oks \in Outcomes : Multilayer_delete(k, oks)
    \/ \E ks \in MLInputs(SUBSET Keys), oks \in Outcomes : Multilayer_delete_many(ks, oks)
    \/ \E oks \in MLInputs(Outcomes) : Multilayer_clear(oks)
    \/ \E k \in MLInputs(Keys), d \in Deltas, oks \in Outcomes : Multilayer_incr(k, d, oks)
    \/ \E k \in MLInputs(Keys), d \in Deltas, oks \in Outcomes : Multilayer_decr(k, d, oks)
    \/ \E i \in MLInputs(1..NLayers), k \in Keys, v \in Values : Layer_direct_set(i, k, v)
    \/ \E i \in MLInputs(1..NLayers), k \in Keys : Layer_direct_delete(i, k)
    \/ Multilayer_return

\* One caller, every child call succeeding: the scalar operations issued
\* through the composite and nothing else.  The primary's set_not_overwrite
\* answers False exactly when it holds the key.
AllSucceed == [i \in 1..NLayers |-> TRUE]

PrimaryAccepts(key) == [i \in 1..NLayers |-> i # Primary \/ ChildGet(layers[Primary], key) = None]

MLCNext ==
    \/ \E k \in MLInputs(Keys), v \in Values : Multilayer_set(k, v, AllSucceed)
    \/ \E k \in MLInputs(Keys), v \in Values : Multilayer_set_not_overwrite(k, v, PrimaryAccepts(k))
    \/ \E ks \in MLInputs(SUBSET Keys), v \in Values : Multilayer_set_many(ks, v)
    \/ \E k \in MLInputs(Keys) : Multilayer_get(k)
    \/ \E k \in MLInputs(Keys) : Multilayer_delete(k, AllSucceed)
    \/ \E ks \in MLInputs(SUBSET Keys) : Multilayer_delete_many(ks, AllSucceed)
    \/ \E k \in MLInputs(Keys), d \in Deltas : Multilayer_incr(k, d, AllSucceed)
    \/ \E k \in MLInputs(Keys), d \in Deltas : Multilayer_decr(k, d, AllSucceed)
    \/ Multilayer_clear(AllSucceed)
    \/ Multilayer_return

\* The hash operations of Multilayer.
MLHNext ==
    \/ \E k \in MLInputs(Keys), v \in Values, oks \in Outcomes : Multilayer_hset(k, v, oks)
    \/ \E k \in MLInputs(Keys), oks \in Outcomes : Multilayer_hdel(k, oks)
    \/ \E k \in MLInputs(Keys), oks \in Outcomes : Multilayer_hget(k, oks)
    \/ \E i \in MLInputs(1..NLayers), k \in Keys, v \in Values : Layer_direct_hset(i, k, v)
    \/ \E i \in MLInputs(1..NLayers), k \in Keys : Layer_direct_hdel(i, k)
    \/ Multilayer_return

\* ----------------------------------------------------------- Replication
RPInit ==
    /\ rp_clients = [i \in 1..NChildren |-> EmptyStore]
    /\ rp_primary \in {None} \cup {{i} : i \in 1..NChildren}
    /\ rp_op = NoOp
    /\ rp_ret = RNone
    /\ rp_calls = << >>

\* The Replication composite left unused (no primary configured).
RPIdle == RPInit /\ rp_primary = None

\* get_client: the primary when one is configured; otherwise the test
\* "if not self._client" reads the base class's _client (None), not the
\* child list _clients, so it is always true and None is returned.
Replication_get_client == IF rp_primary # None THEN rp_primary ELSE None

ChildOutcomes == [1..NChildren -> BOOLEAN]

\* "result = True; for client in self._clients: if not client.<op>(...):
\* result = False; return result"
\* A merge that is satisfied by one child's success.
AnyReported(oks) == \E i \in 1..NChildren : oks[i]

\* A merge that keeps only the last child's report.
LastReported(oks) == oks[NChildren]

AllReported(oks) == \A i \in 1..NChildren : oks[i]

\* The calls "for client in self._clients: client.<op>(...)" issues.
EveryChildCalls(op, oks) == [i \in 1..NChildren |-> Call(i, op, oks[i])]

\* A loop that leaves the last child out.
EveryChild_but_last(op, oks, after) ==
    /\ rp_clients' = [i \in 1..NChildren |->
                        IF oks[i] /\ i < NChildren THEN after[i] ELSE rp_clients[i]]
    /\ rp_ret' = RBool(\A i \in 1..(NChildren - 1) : oks[i])
    /\ rp_calls' = [i \in 1..(NChildren - 1) |-> Call(i, op, oks[i])]
    /\ UNCHANGED rp_primary

EveryChild(op, oks, after) ==
    /\ rp_clients' = [i \in 1..NChildren |-> IF oks[i] THEN after[i] ELSE rp_clients[i]]
    /\ rp_ret' = RBool(AllReported(oks))
    /\ rp_calls' = EveryChildCalls(op, oks)
    /\ UNCHANGED rp_primary

\* A set that leaves the loop at the first child reporting failure.
Replication_set_stops(key, value, oks) ==
    LET bad == {i \in 1..NChildren : ~oks[i]}
        stop == IF bad = {} THEN NChildren ELSE SetMin(bad)
    IN
    /\ rp_op = NoOp
    /\ rp_op' = [name |-> "set", key |-> key, value |-> value]
    /\ UNCHANGED rp_others
    /\ rp_clients' = [i \in 1..NChildren |->
                        IF oks[i] /\ i <= stop THEN ChildSet(rp_clients[i], key, value)
                        ELSE rp_clients[i]]
    /\ rp_ret' = RBool(AllReported(oks))
    /\ rp_calls' = [i \in 1..stop |-> Call(i, "set", oks[i])]
    /\ UNCHANGED rp_primary

Replication_set(key, value, oks) ==
    /\ rp_op = NoOp
    /\ rp_op' = [name |-> "set", key |-> key, value |-> value]
    /\ UNCHANGED rp_others
    /\ LET after == [i \in 1..NChildren |-> ChildSet(rp_clients[i], key, value)]
       IN EveryChild("set", oks, after)

\* A child that holds the key refuses set_not_overwrite.
Replication_set_not_overwrite(key, value, oks) ==
    /\ rp_op = NoOp
    /\ rp_op' = [name |-> "set_not_overwrite", key |-> key, value |-> value]
    /\ UNCHANGED rp_others
    /\ \A i \in 1..NChildren : ChildGet(rp_clients[i], key) # None => ~oks[i]
    /\ LET after == [i \in 1..NChildren |-> ChildSet(rp_clients[i], key, value)]
       IN EveryChild("set_not_overwrite", oks, after)

\* set_many evaluates the undefined name `data` before any child is called.
Replication_set_many(keys, value) ==
    /\ rp_op = NoOp
    /\ rp_op' = [name |-> "set_many", keys |-> keys, value |-> value]
    /\ UNCHANGED rp_others
    /\ rp_ret' = RRaise("NameError")
    /\ rp_calls' = << >>
    /\ UNCHANGED <<rp_clients, rp_primary>>

Replication_delete(key, oks) ==
    /\ rp_op = NoOp
    /\ rp_op' = [name |-> "delete", key |-> key]
    /\ UNCHANGED rp_others
    /\ LET after == [i \in 1..NChildren |-> ChildDelete(rp_clients[i], key)]
       IN EveryChild("delete", oks, after)

\* delete_many calls client.delete_many(keys, noreply) on a child whose
\* signature is delete_many(noreply, *keys): the child receives the key
\* tuple as noreply and (noreply,) as the keys, so it deletes the key
\* False and none of the requested keys.
Replication_delete_many(keys, oks) ==
    /\ rp_op = NoOp
    /\ rp_op' = [name |-> "delete_many", keys |-> keys]
    /\ UNCHANGED rp_others
    /\ LET after == [i \in 1..NChildren |-> ChildDeleteMany(rp_clients[i], {"False"})]
       IN EveryChild("delete_many", oks, after)

Replication_clear(oks) ==
    /\ rp_op = NoOp
    /\ rp_op' = [name |-> "clear"]
    /\ UNCHANGED rp_others
    /\ LET after == [i \in 1..NChildren |-> ChildClear(rp_clients[i])]
       IN EveryChild("clear", oks, after)

\* hset / hdel have the loop of set.  What a child holds under the key
\* stands for the hash: one field, whose value hset stores and hdel removes.
Replication_hset(key, value, oks) ==
    /\ rp_op = NoOp
    /\ rp_op' = [name |-> "hset", key |-> key, value |-> value]
    /\ UNCHANGED rp_others
    /\ LET after == [i \in 1..NChildren |-> ChildSet(rp_clients[i], key, value)]
       IN EveryChild("hset", oks, after)

Replication_hdel(key, oks) ==
    /\ rp_op = NoOp
    /\ rp_op' = [name |-> "hdel", key |-> key]
    /\ UNCHANGED rp_others
    /\ LET after == [i \in 1..NChildren |-> ChildDelete(rp_clients[i], key)]
       IN EveryChild("hdel", oks, after)

\* The boolean writes on lists, sets and sorted sets and expire have the
\* loop of set; the children's list, set and sorted-set contents are not
\* part of the state, only the calls and what they report.
OtherBoolWrites == {"lpush", "rpush", "ltrim", "sadd", "sadd_many",
                    "srem", "zadd", "zrem", "expire"}

Replication_bool_write(op, key, oks) ==
    /\ rp_op = NoOp
    /\ rp_op' = [name |-> op, key |-> key]
    /\ UNCHANGED rp_others
    /\ LET after == [i \in 1..NChildren |-> rp_clients[i]]
       IN EveryChild(op, oks, after)

\* incr / decr: children are visited in order; the first None ends the call.
\* stop = 0 when every child returns a value, else the first failing child.
FirstNone(oks) ==
    LET bad == {i \in 1..NChildren : ~oks[i]}
    IN IF bad = {} THEN 0 ELSE SetMin(bad)

\* An incr that visits every child whatever the earlier ones returned.
IncrEveryChild_no_stop(op, key, delta, oks) ==
    /\ \A i \in 1..NChildren : ChildIncrValue(rp_clients[i], key, delta) \in Values
    /\ rp_clients' = [i \in 1..NChildren |->
                        IF oks[i] THEN ChildIncr(rp_clients[i], key, delta) ELSE rp_clients[i]]
    /\ rp_ret' = IF FirstNone(oks) = 0
                 THEN RVal(ChildIncrValue(rp_clients[NChildren], key, delta))
                 ELSE RNone
    /\ rp_calls' = EveryChildCalls(op, oks)
    /\ UNCHANGED rp_primary

IncrEveryChild(op, key, delta, oks) ==
    LET stop == FirstNone(oks)
        visited == IF stop = 0 THEN 1..NChildren ELSE 1..stop
    IN
    /\ \A i \in visited : ChildIncrValue(rp_clients[i], key, delta) \in Values
    /\ rp_clients' = [i \in 1..NChildren |->
                        IF i \in visited /\ oks[i] THEN ChildIncr(rp_clients[i], key, delta)
                        ELSE rp_clients[i]]
    /\ rp_ret' = IF stop = 0
                 THEN RVal(ChildIncrValue(rp_clients[NChildren], key, delta))
                 ELSE RNone
    /\ rp_calls' = [i \in visited |-> Call(i, op, oks[i])]
    /\ UNCHANGED rp_primary

Replication_incr(key, delta, oks) ==
    /\ rp_op = NoOp
    /\ rp_op' = [name |-> "incr", key |-> key, delta |-> delta]
    /\ UNCHANGED rp_others
    /\ IncrEveryChild("incr", key, delta, oks)

Replication_decr(key, delta, oks) ==
    /\ rp_op = NoOp
    /\ rp_op' = [name |-> "decr", key |-> key, delta |-> delta]
    /\ UNCHANGED rp_others
    /\ IncrEveryChild("decr", key, 0 - delta, oks)

\* zremrangebyrank / zremrangebyscore: "result = 0; for client in
\* self._clients: client_result = client.<op>(...); if client_result >
\* result: result = client_result; return result".  counts[i] is the number
\* child i reports as removed; `result` is the value carried into the loop.
\* A loop that adds the children's counts up.
RECURSIVE ZremLoop_sum(_, _)
ZremLoop_sum(counts, result) ==
    IF counts = << >> THEN result
    ELSE ZremLoop_sum(Tail(counts), result + Head(counts))

RECURSIVE ZremLoop(_, _)
ZremLoop(counts, result) ==
    IF counts = << >> THEN result
    ELSE ZremLoop(Tail(counts), IF Head(counts) > result THEN Head(counts) ELSE result)

RemovedCounts == [1..NChildren -> 0..MaxVal]

Replication_zremrange(op, key, counts) ==
    /\ rp_op = NoOp
    /\ rp_op' = [name |-> op, key |-> key, counts |-> counts]
    /\ UNCHANGED rp_others
    /\ rp_ret' = RVal(ZremLoop(counts, 0))
    /\ rp_calls' = EveryChildCalls(op, [i \in 1..NChildren |-> TRUE])
    /\ UNCHANGED <<rp_clients, rp_primary>>

Replication_zremrangebyrank(key, counts) == Replication_zremrange("zremrangebyrank", key, counts)

Replication_zremrangebyscore(key, counts) == Replication_zremrange("zremrangebyscore", key, counts)

\* block_left_pop / block_right_pop: "result = None; for client in
\* self._clients: result = client.<op>(key, timeout); return result".
\* Every child is asked in turn and pops its own element; the answer is the
\* last child's.
Replication_block_pop(op, key) ==
    /\ rp_op = NoOp
    /\ rp_op' = [name |-> op, key |-> key]
    /\ UNCHANGED rp_others
    /\ rp_clients' = [i \in 1..NChildren |-> ChildDelete(rp_clients[i], key)]
    /\ rp_ret' = ROpt(ChildGet(rp_clients[NChildren], key))
    /\ rp_calls' = [i \in 1..NChildren |-> Call(i, op, ChildGet(rp_clients[i], key) # None)]
    /\ UNCHANGED rp_primary

\* A read: "client = self.get_client(); if client is None: return;
\* return client.<op>(...)".  answer[c] is what child c returns.
ReadOne(op, answer) ==
    LET client == Replication_get_client IN
    /\ rp_ret' = IF client = None THEN RNone ELSE answer[CHOOSE c \in client : TRUE]
    /\ rp_calls' = IF client = None THEN << >>
                   ELSE << Call(CHOOSE c \in client : TRUE, op, TRUE) >>
    /\ UNCHANGED <<rp_clients, rp_primary>>

Replication_get(key) ==
    /\ rp_op = NoOp
    /\ rp_op' = [name |-> "get", key |-> key]
    /\ UNCHANGED rp_others
    /\ LET answer == [c \in 1..NChildren |-> ROpt(ChildGet(rp_clients[c], key))]
       IN ReadOne("get", answer)

\* get_values / get_key_to_value hand the key tuple to the selected child.
Replication_get_values(keys) ==
    /\ rp_op = NoOp
    /\ rp_op' = [name |-> "get_values", keys |-> keys]
    /\ UNCHANGED rp_others
    /\ LET answer == [c \in 1..NChildren |-> [kind |-> "values", of |-> [k \in keys |-> ChildGet(rp_clients[c], k)]]]
       IN ReadOne("get_values", answer)

Replication_get_key_to_value(keys) ==
    /\ rp_op = NoOp
    /\ rp_op' = [name |-> "get_key_to_value", keys |-> keys]
    /\ UNCHANGED rp_others
    /\ LET answer == [c \in 1..NChildren |-> [kind |-> "values", of |-> [k \in keys |-> ChildGet(rp_clients[c], k)]]]
       IN ReadOne("get_key_to_value", answer)

\* The reads of hashes, lists, sets and sorted sets: the answer is the
\* selected child's, whose contents of those types are not part of the state.
OtherReads == {"hget", "hgetall", "hexists", "hlen", "lindex", "llen", "lrange",
               "scard", "sismember", "smembers", "srandmember", "zcard", "zcount",
               "zrange", "zrangebyscore", "zrank", "zscore"}

Replication_read(op, key) ==
    /\ rp_op = NoOp
    /\ rp_op' = [name |-> op, key |-> key]
    /\ UNCHANGED rp_others
    /\ LET answer == [c \in 1..NChildren |-> [kind |-> "answer", of |-> c]]
       IN ReadOne(op, answer)

\* A child is a cache of its own and may be written without the composite.
Child_direct_set(i, key, value) ==
    /\ rp_clients' = [rp_clients EXCEPT ![i] = ChildSet(rp_clients[i], key, value)]
    /\ rp_op = NoOp
    /\ UNCHANGED <<rp_op, rp_ret, rp_calls, rp_others>>
    /\ UNCHANGED rp_primary

Child_direct_delete(i, key) ==
    /\ rp_clients' = [rp_clients EXCEPT ![i] = ChildDelete(rp_clients[i], key)]
    /\ rp_op = NoOp
    /\ UNCHANGED <<rp_op, rp_ret, rp_calls, rp_others>>
    /\ UNCHANGED rp_primary

Replication_return ==
    /\ rp_op # NoOp
    /\ rp_op' = NoOp
    /\ rp_ret' = RNone
    /\ rp_calls' = << >>
    /\ UNCHANGED <<rp_clients, rp_primary, rp_others>>

\* A call is made on the composite only while it is idle: the arguments
\* of a call are drawn then.
RPInputs(S) == IF rp_op = NoOp THEN S ELSE {}

RPNext ==
    \/ \E k \in RPInputs(Keys), v \in Values, oks \in ChildOutcomes : Replication_set(k, v, oks)
    \/ \E k \in RPInputs(Keys), v \in Values, oks \in ChildOutcomes : Replication_set_not_overwrite(k, v, oks)
    \/ \E ks \in RPInputs(SUBSET Keys), v \in Values : Replication_set_many(ks, v)
    \/ \E k \in RPInputs(Keys), oks \in ChildOutcomes : Replication_delete(k, oks)
    \/ \E ks \in RPInputs(SUBSET Keys), oks \in ChildOutcomes : Replication_delete_many(ks, oks)
    \/ \E oks \in RPInputs(ChildOutcomes) : Replication_clear(oks)
    \/ \E k \in RPInputs(Keys), v \in Values, oks \in ChildOutcomes : Replication_hset(k, v, oks)
    \/ \E k \in RPInputs(Keys), oks \in ChildOutcomes : Replication_hdel(k, oks)
    \/ \E op \in RPInputs(OtherBoolWrites), k \in Keys, oks \in ChildOutcomes : Replication_bool_write(op, k, oks)
    \/ \E op \in RPInputs(BlockingPops), k \in Keys : Replication_block_pop(op, k)
    \/ \E k \in RPInputs(Keys), counts \in RemovedCounts : Replication_zremrangebyrank(k, counts)
    \/ \E k \in RPInputs(Keys), counts \in RemovedCounts : Replication_zremrangebyscore(k, counts)
    \/ \E k \in RPInputs(Keys), d \in Deltas, oks \in ChildOutcomes : Replication_incr(k, d, oks)
    \/ \E k \in RPInputs(Keys), d \in Deltas, oks \in ChildOutcomes : Replication_decr(k, d, oks)
    \/ \E k \in RPInputs(Keys) : Replication_get(k)
    \/ \E ks \in RPInputs(SUBSET Keys) : Replication_get_values(ks)
    \/ \E ks \in RPInputs(SUBSET Keys) : Replication_get_key_to_value(ks)
    \/ \E op \in RPInputs(OtherReads), k \in Keys : Replication_read(op, k)
    \/ \E i \in RPInputs(1..NChildren), k \in Keys, v \in Values : Child_direct_set(i, k, v)
    \/ \E i \in RPInputs(1..NChildren), k \in Keys : Child_direct_delete(i, k)
    \/ Replication_return

\* ---------------------------------------------------------- Distribution
\* The cache keys of the Distribution model.  group is what the first
\* group of the key regex r"user:(\w+):.*" captures (match = FALSE when the
\* regex does not match the key); crc is the CRC32 of the key's bytes.
DistKeys == {"user:17:y", "user:4:cart", "user:ab:profile", "order:7"}

KeyTable(key) ==
    CASE key = "user:17:y" -> [match |-> TRUE, group |-> <<"1", "7">>, crc |-> 1876168920]
      [] key = "user:4:cart" -> [match |-> TRUE, group |-> <<"4">>, crc |-> 1401121771]
      [] key = "user:ab:profile" -> [match |-> TRUE, group |-> <<"a", "b">>, crc |-> 568879176]
      [] key = "order:7" -> [match |-> FALSE, group |-> << >>, crc |-> 206790220]

DigitValue == [c \in {"0", "1", "2", "3", "4", "5", "6", "7", "8", "9"} |->
                 CASE c = "0" -> 0 [] c = "1" -> 1 [] c = "2" -> 2 [] c = "3" -> 3
                   [] c = "4" -> 4 [] c = "5" -> 5 [] c = "6" -> 6 [] c = "7" -> 7
                   [] c = "8" -> 8 [] c = "9" -> 9]

\* int(text): the decimal number the characters spell; a ValueError when
\* some character is not a digit.
IsDecimal(text) == Len(text) > 0 /\ \A n \in 1..Len(text) : text[n] \in DOMAIN DigitValue

RECURSIVE PyInt(_)
PyInt(text) ==
    IF Len(text) = 0 THEN 0
    ELSE 10 * PyInt(SubSeq(text, 1, Len(text) - 1)) + DigitValue[text[Len(text)]]

\* crypt.crc32(_to_binary(key)).
Crc32(key) == KeyTable(key).crc

\* The consistent-hash ring: child `name` contributes Replica virtual
\* nodes; VNodePosition gives their places on a ring of RingSize places.
ShardNameList == <<"a", "b", "c", "d">>
ShardNames == {ShardNameList[n] : n \in 1..NShards}

VNodePosition(name, n) ==
    CASE name = "a" -> <<0, 6, 12, 10>>[n]
      [] name = "b" -> <<9, 15, 5, 3>>[n]
      [] name = "c" -> <<14, 8, 2, 4>>[n]
      [] name = "d" -> <<11, 13, 7, 1>>[n]

Ring == [pos \in {VNodePosition(name, n) % RingSize : name \in ShardNames, n \in 1..Replica} |->
           CHOOSE name \in ShardNames : \E n \in 1..Replica : VNodePosition(name, n) % RingSize = pos]

\* ConHash.lookup: the owner of the first virtual node at or after the
\* key's place on the ring, wrapping round; nothing on an empty ring.
ConHash_lookup(key) ==
    LET pos == Crc32(key) % RingSize
        after == {q \in DOMAIN Ring : q >= pos}
    IN IF DOMAIN Ring = {} THEN None
       ELSE IF after # {} THEN {Ring[SetMin(after)]}
       ELSE {Ring[SetMin(DOMAIN Ring)]}

\* The ring is filled at construction and not touched afterwards: the
\* owner it names for each key.
RingOwners == [key \in DistKeys |-> ConHash_lookup(key)]

\* The configurations the model is run with.  python is the interpreter's
\* major version: "/" on integers floors in Python 2 and yields a float in
\* Python 3.
\* A factor that brings the quotient of a CRC32 into the child table.
HashDivFactor == 1073741824

DistConfigs ==
    [method : {"mod", "hash_mod", "hash_div"}, factor : {2, 4}, python : {3}]
        \cup [method : {"div"}, factor : {4, 16}, python : {2, 3}]
        \cup [method : {"hash_div"}, factor : {HashDivFactor}, python : {3}]
        \cup [method : {"conhash"}, factor : {0}, python : {3}]

DistKeyStore == [k \in DistKeys |-> None]

DistInit ==
    /\ dist_config \in DistConfigs
    /\ dist_client = IF dist_config.method = "conhash"
                     THEN [name \in ShardNames |-> DistKeyStore]
                     ELSE [id \in 0..(NShards - 1) |-> DistKeyStore]
    /\ dist_op = NoOp
    /\ dist_ret = RNone
    /\ dist_calls = << >>

DistIdle == DistInit /\ dist_config = [method |-> "mod", factor |-> 2, python |-> 3]

\* What a router answers: a child of the table, no route (None), or an
\* exception that leaves the router.
Owner(c) == [kind |-> "client", id |-> c]
NoRoute == [kind |-> "none"]
RouteRaised(e) == [kind |-> "raised", exc |-> e]

\* self._client.get(client_id): the child registered under the id, if any.
ClientTableGet(client_id) == IF client_id \in DOMAIN dist_client THEN Owner(client_id) ELSE NoRoute

\* n / factor: the floor in Python 2; in Python 3 a float, which equals an
\* integer id only when factor divides n.
PyDivide(n, factor) ==
    IF dist_config.python = 2 \/ n % factor = 0 THEN {n \div factor} ELSE None

\* int(self._regex.match(key).group(1)): the except clause turns a failed
\* match and a non-numeric group into "no route".
RegexSubKey(key) ==
    IF KeyTable(key).match /\ IsDecimal(KeyTable(key).group)
    THEN {PyInt(KeyTable(key).group)} ELSE None

_get_client_by_key_conhash(key) ==
    LET owner == RingOwners[key]
    IN IF owner = None THEN NoRoute ELSE ClientTableGet(CHOOSE c \in owner : TRUE)

\* A router that rotates the bucket with every child call it has made.
_get_client_by_key_mod_rotating(key) ==
    LET sub == RegexSubKey(key)
    IN IF sub = None THEN NoRoute
       ELSE ClientTableGet(((CHOOSE n \in sub : TRUE) + Len(dist_calls)) % dist_config.factor)

_get_client_by_key_mod(key) ==
    LET sub == RegexSubKey(key)
    IN IF sub = None THEN NoRoute
       ELSE ClientTableGet((CHOOSE n \in sub : TRUE) % dist_config.factor)

_get_client_by_key_div(key) ==
    LET sub == RegexSubKey(key)
        quotient == IF sub = None THEN None ELSE PyDivide(CHOOSE n \in sub : TRUE, dist_config.factor)
    IN IF quotient = None THEN NoRoute ELSE ClientTableGet(CHOOSE c \in quotient : TRUE)

\* hash_mod and hash_div evaluate crypt.crc32(_to_binary(key)); the module
\* imports neither crypt nor _to_binary, so the expression raises NameError
\* before anything is hashed.
_get_client_by_key_hash_mod(key) == RouteRaised("NameError")

_get_client_by_key_hash_div(key) == RouteRaised("NameError")

\* self.get_client_by_key, bound at construction to the method's function.
get_client_by_key(key) ==
    CASE dist_config.method = "conhash" -> _get_client_by_key_conhash(key)
      [] dist_config.method = "mod" -> _get_client_by_key_mod(key)
      [] dist_config.method = "div" -> _get_client_by_key_div(key)
      [] dist_config.method = "hash_mod" -> _get_client_by_key_hash_mod(key)
      [] dist_config.method = "hash_div" -> _get_client_by_key_hash_div(key)

\* self._client.values(): the children in the order they were registered.
ClientOrder ==
    IF dist_config.method = "conhash"
    THEN [n \in 1..NShards |-> ShardNameList[n]]
    ELSE [n \in 1..NShards |-> n - 1]

\* "client = self.get_client_by_key(key); if client is None: return <failure>;
\* return client.<op>(...)".  The call on the owner either succeeds, the
\* owner then holding after and the composite returning success, or fails.  An
\* exception of the router leaves the operation.
\* An owner call whose write reaches every child of the table.
OwnerCall_everywhere(op, key, ok, failure, success, after) ==
    LET client == get_client_by_key(key) IN
    /\ UNCHANGED dist_config
    /\ IF client.kind = "client"
       THEN /\ dist_calls' = << Call(client.id, op, ok) >>
            /\ dist_ret' = IF ok THEN success ELSE failure
            /\ dist_client' = IF ok THEN after ELSE dist_client
       ELSE /\ dist_ret' = IF client.kind = "none" THEN failure ELSE RRaise(client.exc)
            /\ dist_calls' = << >>
            /\ dist_client' = dist_client

OwnerCall(op, key, ok, failure, success, after) ==
    LET client == get_client_by_key(key) IN
    /\ UNCHANGED dist_config
    /\ IF client.kind = "client"
       THEN /\ dist_calls' = << Call(client.id, op, ok) >>
            /\ dist_ret' = IF ok THEN success ELSE failure
            /\ dist_client' = IF ok THEN [dist_client EXCEPT ![client.id] = after[client.id]]
                              ELSE dist_client
       ELSE /\ dist_ret' = IF client.kind = "none" THEN failure ELSE RRaise(client.exc)
            /\ dist_calls' = << >>
            /\ dist_client' = dist_client

\* A set that writes the value to every child of the table.
Distribution_set_broadcast(key, value, ok) ==
    /\ dist_op = NoOp
    /\ dist_op' = [name |-> "set", key |-> key, value |-> value]
    /\ UNCHANGED <<dist_others, dist_config>>
    /\ dist_client' = IF ok THEN [c \in DOMAIN dist_client |-> ChildSet(dist_client[c], key, value)]
                      ELSE dist_client
    /\ dist_ret' = RBool(ok)
    /\ dist_calls' = [n \in 1..NShards |-> Call(ClientOrder[n], "set", ok)]

Distribution_set(key, value, ok) ==
    /\ dist_op = NoOp
    /\ dist_op' = [name |-> "set", key |-> key, value |-> value]
    /\ UNCHANGED dist_others
    /\ LET after == [c \in DOMAIN dist_client |-> ChildSet(dist_client[c], key, value)]
       IN OwnerCall("set", key, ok, RBool(FALSE), RBool(TRUE), after)

\* What get answers: the owner's value, None without a route.
DistGetResult(key) ==
    LET client == get_client_by_key(key)
    IN IF client.kind = "client" THEN ROpt(ChildGet(dist_client[client.id], key))
       ELSE IF client.kind = "none" THEN RNone ELSE RRaise(client.exc)

Distribution_get(key) ==
    LET client == get_client_by_key(key) IN
    /\ dist_op = NoOp
    /\ dist_op' = [name |-> "get", key |-> key]
    /\ UNCHANGED dist_others
    /\ UNCHANGED <<dist_config, dist_client>>
    /\ dist_ret' = DistGetResult(key)
    /\ dist_calls' = IF client.kind = "client"
                     THEN << Call(client.id, "get", ChildGet(dist_client[client.id], key) # None) >>
                     ELSE << >>

Distribution_delete(key, ok) ==
    /\ dist_op = NoOp
    /\ dist_op' = [name |-> "delete", key |-> key]
    /\ UNCHANGED dist_others
    /\ LET after == [c \in DOMAIN dist_client |-> ChildDelete(dist_client[c], key)]
       IN OwnerCall("delete", key, ok, RBool(FALSE), RBool(TRUE), after)

\* incr / decr return the owner's new value, None on a backend error or
\* when the key has no route.
OwnerIncr(op, key, delta, ok) ==
    LET client == get_client_by_key(key)
        after == [c \in DOMAIN dist_client |-> ChildIncr(dist_client[c], key, delta)]
        new == IF client.kind = "client"
               THEN RVal(ChildIncrValue(dist_client[client.id], key, delta))
               ELSE RNone
    IN /\ (client.kind = "client" => new.v \in Values)
       /\ OwnerCall(op, key, ok, RNone, new, after)

Distribution_incr(key, delta, ok) ==
    /\ dist_op = NoOp
    /\ dist_op' = [name |-> "incr", key |-> key, delta |-> delta]
    /\ UNCHANGED dist_others
    /\ OwnerIncr("incr", key, delta, ok)

Distribution_decr(key, delta, ok) ==
    /\ dist_op = NoOp
    /\ dist_op' = [name |-> "decr", key |-> key, delta |-> delta]
    /\ UNCHANGED dist_others
    /\ OwnerIncr("decr", key, 0 - delta, ok)

\* The child's set_not_overwrite refuses a key it holds.
Distribution_set_not_overwrite(key, value, ok) ==
    LET client == get_client_by_key(key)
        after == [c \in DOMAIN dist_client |-> ChildSet(dist_client[c], key, value)]
    IN
    /\ dist_op = NoOp
    /\ dist_op' = [name |-> "set_not_overwrite", key |-> key, value |-> value]
    /\ UNCHANGED dist_others
    /\ (client.kind = "client" /\ ok => ChildGet(dist_client[client.id], key) = None)
    /\ OwnerCall("set_not_overwrite", key, ok, RBool(FALSE), RBool(TRUE), after)

\* The list, hash, set and sorted-set operations all have the single-key
\* shape.  The data held under a key is abstracted to one content per key:
\* a write leaves the owner with some content (or none) under the key.
\* These writes answer False when the key has no route ...
DistFalseWrites == {"lpush", "ltrim", "rpush", "sadd", "sadd_many", "srem", "hdel", "zadd", "zrem"}

\* ... and these answer None.
DistNoneWrites == {"block_left_pop", "block_right_pop", "lpop", "rpop", "zincrby",
                   "zremrangebyrank", "zremrangebyscore", "expire"}

DistReads == {"lindex", "llen", "lrange", "scard", "sismember", "smembers", "srandmember",
              "hgetall", "hget", "hexists", "hlen", "zcard", "zcount", "zrange",
              "zrangebyscore", "zrank", "zscore"}

Contents == {None} \cup {{v} : v \in Values}

\* The method called on the owner: zremrangebyscore hands its arguments to
\* the owner's zremrangebyrank.
ChildOp(op) == IF op = "zremrangebyscore" THEN "zremrangebyrank" ELSE op

Distribution_write(op, key, content, ok) ==
    LET after == [c \in DOMAIN dist_client |-> [dist_client[c] EXCEPT ![key] = content]]
        failure == IF op \in DistFalseWrites THEN RBool(FALSE) ELSE RNone
        success == IF op \in DistFalseWrites THEN RBool(TRUE) ELSE [kind |-> "answer", of |-> content]
    IN
    /\ dist_op = NoOp
    /\ dist_op' = [name |-> op, key |-> key]
    /\ UNCHANGED dist_others
    /\ OwnerCall(ChildOp(op), key, ok, failure, success, after)

\* hset calls the owner's hget with hset's five arguments; hget takes two,
\* so the call raises TypeError and the owner stores nothing.
Distribution_hset(key) ==
    LET client == get_client_by_key(key) IN
    /\ dist_op = NoOp
    /\ dist_op' = [name |-> "hset", key |-> key]
    /\ UNCHANGED dist_others
    /\ UNCHANGED <<dist_config, dist_client>>
    /\ dist_ret' = IF client.kind = "client" THEN RRaise("TypeError")
                   ELSE IF client.kind = "none" THEN RBool(FALSE) ELSE RRaise(client.exc)
    /\ dist_calls' = IF client.kind = "client" THEN << Call(client.id, "hget", FALSE) >> ELSE << >>

Distribution_read(op, key) ==
    LET client == get_client_by_key(key) IN
    /\ dist_op = NoOp
    /\ dist_op' = [name |-> op, key |-> key]
    /\ UNCHANGED dist_others
    /\ UNCHANGED <<dist_config, dist_client>>
    /\ dist_ret' = IF client.kind = "client"
                   THEN [kind |-> "answer", of |-> ChildGet(dist_client[client.id], key)]
                   ELSE IF client.kind = "none" THEN RNone ELSE RRaise(client.exc)
    /\ dist_calls' = IF client.kind = "client" THEN << Call(client.id, op, TRUE) >> ELSE << >>

\* ---- the multi-key operations
\* The key tuples handed to set_many, delete_many and get_values.
KeySeqs ==
    {ks \in UNION {[1..n -> DistKeys] : n \in 0..MaxKeys} :
        \A i, j \in 1..Len(ks) : i # j => ks[i] # ks[j]}

\* A sub-call on a child, with the keys the child is handed.
MultiCall(c, op, ok, keys) == [child |-> c, op |-> op, ok |-> ok, keys |-> keys]

\* The first loop asks the router for every key, in order.
RECURSIVE Routes(_)
Routes(ks) ==
    IF ks = << >> THEN << >>
    ELSE << get_client_by_key(Head(ks)) >> \o Routes(Tail(ks))

\* The positions of the keys for which the router names no child.
BadRoutes(routes) == {n \in DOMAIN routes : routes[n].kind # "client"}

\* "return <failure>" at the first key without a route, or the router's
\* exception leaving the call.
FirstBadResult(routes, failure) ==
    LET r == routes[SetMin(BadRoutes(routes))]
    IN IF r.kind = "none" THEN failure ELSE RRaise(r.exc)

\* query_table: the owners in the order their first key came, and the
\* keys grouped under each.
RECURSIVE QueryOwnersLoop(_, _)
QueryOwnersLoop(routes, owners) ==
    IF routes = << >> THEN owners
    ELSE QueryOwnersLoop(Tail(routes),
                         IF /\ Head(routes).kind = "client"
                            /\ \A j \in 1..Len(owners) : owners[j] # Head(routes).id
                         THEN Append(owners, Head(routes).id)
                         ELSE owners)

QueryOwners(routes) == QueryOwnersLoop(routes, << >>)

QueryKeys(ks, routes, c) ==
    {ks[n] : n \in {m \in DOMAIN routes : routes[m].kind = "client" /\ routes[m].id = c}}

\* A loop that goes through every owner whatever the earlier ones report.
SubCallCount_all(owners, oks) == Len(owners)

\* The second loop: "for client, query in query_table.items(): if not
\* client.<op>(...): return False".  oks[c] is what child c reports; the
\* loop ends at the first child reporting failure.
SubCallCount(owners, oks) ==
    LET failing == {j \in 1..Len(owners) : ~oks[owners[j]]}
    IN IF failing = {} THEN Len(owners) ELSE SetMin(failing)

ChildSetMany(store, keys, value) == [k \in DOMAIN store |-> IF k \in keys THEN {value} ELSE store[k]]

\* The two loops of set_many and delete_many.  handed[c] is the query
\* child c is handed, after[c] what c holds when its sub-call succeeds.
SubCalls(op, oks, owners, count, handed, after) ==
    /\ dist_ret' = RBool(\A j \in 1..count : oks[owners[j]])
    /\ dist_calls' = [j \in 1..count |->
                        MultiCall(owners[j], op, oks[owners[j]], handed[owners[j]])]
    /\ dist_client' = [c \in DOMAIN dist_client |->
                         IF oks[c] /\ \E j \in 1..count : owners[j] = c
                         THEN after[c] ELSE dist_client[c]]

MultiKeyCall(op, oks, routes, owners, handed, after) ==
    IF BadRoutes(routes) # {}
    THEN /\ dist_ret' = FirstBadResult(routes, RBool(FALSE))
         /\ dist_calls' = << >>
         /\ dist_client' = dist_client
    ELSE SubCalls(op, oks, owners, SubCallCount(owners, oks), handed, after)

\* A set_many that skips the keys without a route and writes the others.
Distribution_set_many_partial(ks, value, oks) ==
    LET routes == Routes(ks)
        owners == QueryOwners(routes)
        count == SubCallCount(owners, oks)
        called == {owners[j] : j \in 1..count}
    IN
    /\ dist_op = NoOp
    /\ dist_op' = [name |-> "set_many", keys |-> ks, value |-> value]
    /\ UNCHANGED <<dist_others, dist_config>>
    /\ dist_ret' = RBool(BadRoutes(routes) = {} /\ \A c \in called : oks[c])
    /\ dist_calls' = [j \in 1..count |->
                        MultiCall(owners[j], "set_many", oks[owners[j]], QueryKeys(ks, routes, owners[j]))]
    /\ dist_client' = [c \in DOMAIN dist_client |->
                         IF c \in called /\ oks[c]
                         THEN ChildSetMany(dist_client[c], QueryKeys(ks, routes, c), value)
                         ELSE dist_client[c]]

Distribution_set_many(ks, value, oks) ==
    /\ dist_op = NoOp
    /\ dist_op' = [name |-> "set_many", keys |-> ks, value |-> value]
    /\ UNCHANGED <<dist_others, dist_config>>
    /\ LET routes == Routes(ks)
           handed == [c \in DOMAIN dist_client |-> QueryKeys(ks, routes, c)]
           after == [c \in DOMAIN dist_client |-> ChildSetMany(dist_client[c], handed[c], value)]
       IN MultiKeyCall("set_many", oks, routes, QueryOwners(routes), handed, after)

\* delete_many hands each owner "delete_many(query, noreply)"; the child's
\* signature is delete_many(noreply, *keys), so the child takes the key
\* list for noreply and deletes the one key False: none of the requested
\* keys is removed.
Distribution_delete_many(ks, oks) ==
    /\ dist_op = NoOp
    /\ dist_op' = [name |-> "delete_many", keys |-> ks]
    /\ UNCHANGED <<dist_others, dist_config>>
    /\ LET routes == Routes(ks)
           handed == [c \in DOMAIN dist_client |-> {"False"}]
           after == [c \in DOMAIN dist_client |-> ChildDeleteMany(dist_client[c], handed[c])]
       IN MultiKeyCall("delete_many", oks, routes, QueryOwners(routes), handed, after)

\* get_values hands each owner "get_values(query)": one argument, the list
\* of its keys, where the child takes the keys positionally.  The child
\* looks the list up as one key: _to_native(list) raises AttributeError,
\* which leaves the call at the first owner.
Distribution_get_values(ks) ==
    LET routes == Routes(ks)
        owners == QueryOwners(routes)
    IN
    /\ dist_op = NoOp
    /\ dist_op' = [name |-> "get_values", keys |-> ks]
    /\ UNCHANGED <<dist_others, dist_config, dist_client>>
    /\ IF BadRoutes(routes) # {}
       THEN /\ dist_ret' = FirstBadResult(routes, RNone)
            /\ dist_calls' = << >>
       ELSE IF Len(ks) = 0
       THEN /\ dist_ret' = [kind |-> "values", of |-> << >>]
            /\ dist_calls' = << >>
       ELSE /\ dist_ret' = RRaise("AttributeError")
            /\ dist_calls' = << MultiCall(owners[1], "get_values", FALSE,
                                           {QueryKeys(ks, routes, owners[1])}) >>

\* A variant in which a child whose clear fails is dropped from the table.
Distribution_clear_evicting(oks) ==
    /\ dist_op = NoOp
    /\ dist_op' = [name |-> "clear"]
    /\ UNCHANGED dist_others
    /\ UNCHANGED dist_config
    /\ dist_client' = [c \in {d \in DOMAIN dist_client : oks[d]} |-> ChildClear(dist_client[c])]
    /\ dist_ret' = RBool(\A c \in DOMAIN dist_client : oks[c])
    /\ dist_calls' = [n \in 1..NShards |-> Call(ClientOrder[n], "clear", oks[ClientOrder[n]])]

\* clear is sent to every child of the table, whatever the earlier ones
\* answered.
Distribution_clear(oks) ==
    /\ dist_op = NoOp
    /\ dist_op' = [name |-> "clear"]
    /\ UNCHANGED dist_others
    /\ UNCHANGED dist_config
    /\ dist_client' = [c \in DOMAIN dist_client |->
                         IF oks[c] THEN ChildClear(dist_client[c]) ELSE dist_client[c]]
    /\ dist_ret' = RBool(\A c \in DOMAIN dist_client : oks[c])
    /\ dist_calls' = [n \in 1..NShards |-> Call(ClientOrder[n], "clear", oks[ClientOrder[n]])]

Distribution_return ==
    /\ dist_op # NoOp
    /\ dist_op' = NoOp
    /\ dist_ret' = RNone
    /\ dist_calls' = << >>
    /\ UNCHANGED <<dist_config, dist_client, dist_others>>

\* A call is made on the composite only while it is idle: the arguments
\* of a call are drawn then.
DistInputs(S) == IF dist_op = NoOp THEN S ELSE {}

DistNext ==
    \/ \E k \in DistInputs(DistKeys), v \in Values, ok \in BOOLEAN : Distribution_set(k, v, ok)
    \/ \E k \in DistInputs(DistKeys) : Distribution_get(k)
    \/ \E k \in DistInputs(DistKeys), ok \in BOOLEAN : Distribution_delete(k, ok)
    \/ \E k \in DistInputs(DistKeys), d \in Deltas, ok \in BOOLEAN : Distribution_incr(k, d, ok)
    \/ \E k \in DistInputs(DistKeys), d \in Deltas, ok \in BOOLEAN : Distribution_decr(k, d, ok)
    \/ \E k \in DistInputs(DistKeys), v \in Values, ok \in BOOLEAN : Distribution_set_not_overwrite(k, v, ok)
    \/ \E op \in DistInputs(DistFalseWrites \cup DistNoneWrites), k \in DistKeys, content \in Contents,
          ok \in BOOLEAN : Distribution_write(op, k, content, ok)
    \/ \E k \in DistInputs(DistKeys) : Distribution_hset(k)
    \/ \E op \in DistInputs(DistReads), k \in DistKeys : Distribution_read(op, k)
    \/ \E ks \in DistInputs(KeySeqs), v \in Values, oks \in [DOMAIN dist_client -> BOOLEAN] :
          Distribution_set_many(ks, v, oks)
    \/ \E ks \in DistInputs(KeySeqs), oks \in [DOMAIN dist_client -> BOOLEAN] :
          Distribution_delete_many(ks, oks)
    \/ \E ks \in DistInputs(KeySeqs) : Distribution_get_values(ks)
    \/ \E oks \in DistInputs([DOMAIN dist_client -> BOOLEAN]) : Distribution_clear(oks)
    \/ Distribution_return

\* ---------------------------------------------------------------- Memory
\* cache_base.default_timeout.
default_timeout == 1

\* The trim interval the adapter is constructed with (trim_internal).
trim_interval == 1

\* A timeout argument: None (not given) or {t}.
TimeoutArgs == {None} \cup {{t} : t \in 0..MaxTimeout}

\* The Python values the adapter is handed: an int n, a float (n halves,
\* so PyFloat(3) is 1.5), the decimal text of n, a text that is no
\* decimal, and a value that is neither a number nor a string.
PyNumber(n) == [type |-> "int", n |-> n]
PyFloat(halves) == [type |-> "float", n |-> halves]
PyText(n) == [type |-> "str", n |-> n]
PyWord == [type |-> "word", n |-> 0]
PyList == [type |-> "list", n |-> 0]

MemValues == {PyNumber(n) : n \in Values} \cup {PyFloat(3), PyText(1), PyWord, PyList}

\* "self.timeout = timeout or default_timeout".
Memory_timeout(timeout) ==
    IF timeout = None \/ timeout = {0} THEN default_timeout ELSE CHOOSE t \in timeout : TRUE

MemInit ==
    /\ mem_timeout \in {Memory_timeout(timeout) : timeout \in TimeoutArgs}
    /\ mem_store = [k \in Keys |-> None]
    /\ mem_last_trim = 0
    /\ mem_now = 0
    /\ mem_written = [k \in Keys |-> None]
    /\ mem_op = NoOp
    /\ mem_ret = RNone

\* The in-memory adapter left unused.
MemIdle == MemInit /\ mem_timeout = default_timeout

\* _Value(timeout, value); timeout is None (never expires) or {instant}.
_Value(timeout, value) == [timeout |-> timeout, value |-> value]

\* A normalisation that takes 0 for a number of seconds like any other.
_normalize_timeout_zero_seconds(timeout) ==
    IF timeout = None THEN {mem_now + mem_timeout}
    ELSE {mem_now + (CHOOSE t \in timeout : TRUE)}

_normalize_timeout(timeout) ==
    IF timeout = None THEN {mem_now + mem_timeout}
    ELSE IF timeout = {0} THEN None
    ELSE {mem_now + (CHOOSE t \in timeout : TRUE)}

\* "value.timeout is not None and value.timeout < now", for the entry held
\* under a key.
Expired(held) ==
    held # None /\ (CHOOSE e \in held : TRUE).timeout # None
               /\ (CHOOSE t \in (CHOOSE e \in held : TRUE).timeout : TRUE) < mem_now

\* _trim: when the interval has passed, the expired entries are deleted.
CanTrim == mem_last_trim + trim_interval < mem_now

Trimmed == IF CanTrim THEN [k \in Keys |-> IF Expired(mem_store[k]) THEN None ELSE mem_store[k]]
           ELSE mem_store

TrimTime == IF CanTrim THEN mem_now ELSE mem_last_trim

\* A get that leaves expiry to _trim: whatever the store holds is returned.
Memory_get_lazy(key) ==
    /\ mem_op = NoOp
    /\ mem_op' = [name |-> "get", key |-> key]
    /\ UNCHANGED <<mem_others, mem_timeout, mem_last_trim, mem_now, mem_written>>
    /\ mem_store' = mem_store
    /\ mem_ret' = ROpt({e.value : e \in mem_store[key]})

Memory_get(key) ==
    /\ mem_op = NoOp
    /\ mem_op' = [name |-> "get", key |-> key]
    /\ UNCHANGED <<mem_others, mem_timeout, mem_last_trim, mem_now, mem_written>>
    /\ IF mem_store[key] = None
       THEN mem_ret' = RNone /\ mem_store' = mem_store
       ELSE IF Expired(mem_store[key])
       THEN mem_ret' = RNone /\ mem_store' = [mem_store EXCEPT ![key] = None]
       ELSE /\ mem_ret' = RVal((CHOOSE e \in mem_store[key] : TRUE).value)
            /\ mem_store' = mem_store

\* get_key_to_value: "for key in keys: value = self._store.get(key); if
\* value is None: continue; if value.timeout is not None and value.timeout
\* < now: continue; d[key] = value.value".  Nothing is removed.
Memory_get_key_to_value(keys) ==
    /\ mem_op = NoOp
    /\ mem_op' = [name |-> "get_key_to_value", keys |-> keys]
    /\ UNCHANGED <<mem_others, mem_timeout, mem_last_trim, mem_now, mem_written, mem_store>>
    /\ mem_ret' = [kind |-> "dict",
                   of |-> [k \in {key \in keys : mem_store[key] # None /\ ~Expired(mem_store[key])} |->
                              (CHOOSE e \in mem_store[k] : TRUE).value]]

Memory_set(key, value, timeout) ==
    /\ mem_op = NoOp
    /\ mem_op' = [name |-> "set", key |-> key, value |-> value, timeout |-> timeout]
    /\ UNCHANGED <<mem_others, mem_timeout, mem_now>>
    /\ mem_last_trim' = TrimTime
    /\ mem_store' = [Trimmed EXCEPT ![key] = {_Value(_normalize_timeout(timeout), value)}]
    /\ mem_written' = [mem_written EXCEPT ![key] = {[value |-> value, at |-> mem_now, timeout |-> timeout]}]
    /\ mem_ret' = RBool(TRUE)

Memory_delete(key) ==
    /\ mem_op = NoOp
    /\ mem_op' = [name |-> "delete", key |-> key]
    /\ UNCHANGED <<mem_others, mem_timeout, mem_now>>
    /\ mem_last_trim' = TrimTime
    /\ mem_store' = [Trimmed EXCEPT ![key] = None]
    /\ mem_written' = [mem_written EXCEPT ![key] = None]
    /\ mem_ret' = RBool(TRUE)

Memory_clear ==
    /\ mem_op = NoOp
    /\ mem_op' = [name |-> "clear"]
    /\ UNCHANGED <<mem_others, mem_timeout, mem_now, mem_last_trim>>
    /\ mem_store' = [k \in Keys |-> None]
    /\ mem_written' = [k \in Keys |-> None]
    /\ mem_ret' = RBool(TRUE)

\* A variant whose test is "old_value.timeout > time.time()": an entry is
\* given up at the very instant it expires.
Memory_set_not_overwrite_strict(key, value, timeout) ==
    /\ mem_op = NoOp
    /\ mem_op' = [name |-> "set_not_overwrite", key |-> key, value |-> value, timeout |-> timeout]
    /\ UNCHANGED <<mem_others, mem_timeout, mem_now>>
    /\ mem_last_trim' = TrimTime
    /\ IF Trimmed[key] # None /\ ((CHOOSE e \in Trimmed[key] : TRUE).timeout = None
                                   \/ (CHOOSE e \in Trimmed[key] : TRUE).timeout # {mem_now})
                             /\ ~Expired(Trimmed[key])
       THEN /\ mem_store' = Trimmed
            /\ mem_written' = mem_written
            /\ mem_ret' = RBool(FALSE)
       ELSE /\ mem_store' = [Trimmed EXCEPT ![key] = {_Value(_normalize_timeout(timeout), value)}]
            /\ mem_written' = [mem_written EXCEPT
                                  ![key] = {[value |-> value, at |-> mem_now, timeout |-> timeout]}]
            /\ mem_ret' = RBool(TRUE)

\* set_not_overwrite: "self._trim(); old_value = self._store.get(key); if
\* old_value is not None and (old_value.timeout is None or
\* old_value.timeout >= time.time()): return False; store; return True".
Memory_set_not_overwrite(key, value, timeout) ==
    /\ mem_op = NoOp
    /\ mem_op' = [name |-> "set_not_overwrite", key |-> key, value |-> value, timeout |-> timeout]
    /\ UNCHANGED <<mem_others, mem_timeout, mem_now>>
    /\ mem_last_trim' = TrimTime
    /\ IF Trimmed[key] # None /\ ~Expired(Trimmed[key])
       THEN /\ mem_store' = Trimmed
            /\ mem_written' = mem_written
            /\ mem_ret' = RBool(FALSE)
       ELSE /\ mem_store' = [Trimmed EXCEPT ![key] = {_Value(_normalize_timeout(timeout), value)}]
            /\ mem_written' = [mem_written EXCEPT
                                  ![key] = {[value |-> value, at |-> mem_now, timeout |-> timeout]}]
            /\ mem_ret' = RBool(TRUE)

\* "if isinstance(value, _numeric_types): value += delta; elif
\* isinstance(value, (binary, text)): try: value = text(int(value) + delta)
\* except: return; else: return": the new value, None where incr returns.
IncrValue(value, delta) ==
    IF value.type = "int" THEN {PyNumber(value.n + delta)}
    ELSE IF value.type = "float" THEN {PyFloat(value.n + 2 * delta)}
    ELSE IF value.type = "str" THEN {PyText(value.n + delta)}
    ELSE None

\* int(value): a float is truncated towards zero, a decimal text is parsed.
IntOf(value) ==
    IF value.type = "float"
    THEN (IF value.n >= 0 THEN value.n \div 2 ELSE 0 - ((0 - value.n) \div 2))
    ELSE value.n

\* The numbers an incr may reach in the model.
InRange(value) ==
    IF value.type = "float" THEN value.n \in (0 - 2 * MaxVal - 2)..(2 * MaxVal + 2)
    ELSE value.n \in (0 - MaxVal - 1)..(MaxVal + 1)

\* A variant that treats a value it cannot add to like an absent key.
IncrStore_resetting(key, delta) ==
    LET old_value == mem_store[key] IN
    IF old_value = None \/ Expired(old_value)
          \/ IncrValue((CHOOSE e \in old_value : TRUE).value, delta) = None
    THEN /\ mem_store' = [mem_store EXCEPT ![key] = {_Value(None, PyNumber(delta))}]
         /\ mem_ret' = RVal(PyNumber(delta))
    ELSE LET held == CHOOSE e \in old_value : TRUE
             value == IncrValue(held.value, delta)
         IN /\ InRange(CHOOSE v \in value : TRUE)
            /\ mem_store' = [mem_store EXCEPT
                                ![key] = {_Value(held.timeout, CHOOSE v \in value : TRUE)}]
            /\ mem_ret' = RVal(PyNumber(IntOf(CHOOSE v \in value : TRUE)))

\* incr: no _trim; an absent or expired key is set to delta with no
\* expiration; otherwise the entry keeps its timeout.
IncrStore(key, delta) ==
    LET old_value == mem_store[key] IN
    IF old_value = None \/ Expired(old_value)
    THEN /\ mem_store' = [mem_store EXCEPT ![key] = {_Value(None, PyNumber(delta))}]
         /\ mem_ret' = RVal(PyNumber(delta))
    ELSE LET held == CHOOSE e \in old_value : TRUE
             value == IncrValue(held.value, delta)
         IN IF value = None
            THEN /\ mem_store' = mem_store
                 /\ mem_ret' = RNone
            ELSE /\ InRange(CHOOSE v \in value : TRUE)
                 /\ mem_store' = [mem_store EXCEPT
                                     ![key] = {_Value(held.timeout, CHOOSE v \in value : TRUE)}]
                 /\ mem_ret' = RVal(PyNumber(IntOf(CHOOSE v \in value : TRUE)))

Memory_incr(key, delta) ==
    /\ mem_op = NoOp
    /\ mem_op' = [name |-> "incr", key |-> key, delta |-> delta]
    /\ UNCHANGED <<mem_others, mem_timeout, mem_now, mem_last_trim>>
    /\ mem_written' = [mem_written EXCEPT ![key] = None]
    /\ IncrStore(key, delta)

\* decr: "return self.incr(key, -delta, noreply)".
Memory_decr(key, delta) ==
    /\ mem_op = NoOp
    /\ mem_op' = [name |-> "decr", key |-> key, delta |-> delta]
    /\ UNCHANGED <<mem_others, mem_timeout, mem_now, mem_last_trim>>
    /\ mem_written' = [mem_written EXCEPT ![key] = None]
    /\ IncrStore(key, 0 - delta)

\* The clock advances between calls.
Tick ==
    /\ mem_op = NoOp
    /\ mem_now < MaxTime
    /\ mem_now' = mem_now + 1
    /\ UNCHANGED <<mem_others, mem_timeout, mem_store, mem_last_trim, mem_written, mem_op, mem_ret>>

Memory_return ==
    /\ mem_op # NoOp
    /\ mem_op' = NoOp
    /\ mem_ret' = RNone
    /\ UNCHANGED <<mem_others, mem_timeout, mem_store, mem_last_trim, mem_now, mem_written>>

\* A call is made on the adapter only while it is idle: the arguments of a
\* call are drawn then.
MemInputs(S) == IF mem_op = NoOp THEN S ELSE {}

MemNext ==
    \/ \E k \in MemInputs(Keys) : Memory_get(k)
    \/ \E k \in MemInputs(Keys), v \in MemValues, timeout \in TimeoutArgs : Memory_set(k, v, timeout)
    \/ \E k \in MemInputs(Keys) : Memory_delete(k)
    \/ \E ks \in MemInputs(SUBSET Keys) : Memory_get_key_to_value(ks)
    \/ Memory_clear
    \/ \E k \in MemInputs(Keys), v \in MemValues, timeout \in TimeoutArgs :
          Memory_set_not_overwrite(k, v, timeout)
    \/ \E k \in MemInputs(Keys), d \in Deltas : Memory_incr(k, d)
    \/ \E k \in MemInputs(Keys), d \in Deltas : Memory_decr(k, d)
    \/ Tick
    \/ Memory_return

\* ---------------------------------------------------- concurrent callers
\* Two threads call one composite at the same time.  Each child call is
\* atomic and succeeds; between two child calls of one caller the other
\* caller may run.  A caller is at a statement of its method: at is
\* "write" (Multilayer.set / Replication.set, about to make its pc-th
\* child call), "scan" (Multilayer.get, about to read layer pc), "promote"
\* (Multilayer.get, about to write the value found), "done" or "raised".
SetCaller(target, key, value) ==
    [target |-> target, op |-> "set", key |-> key, value |-> value, at |-> "write", pc |-> 1, found |-> None]

GetCaller(target, key) ==
    [target |-> target, op |-> "get", key |-> key, value |-> 0, at |-> "scan", pc |-> 1, found |-> None]

NoCaller == [target |-> "none", op |-> "none", key |-> "", value |-> 0, at |-> "done", pc |-> 0, found |-> None]

CallersIdle == callers = << NoCaller, NoCaller >>

Returned(c) == callers[c].at \in {"done", "raised"}

\* Multilayer.set: "if not self._primary_cache.set(...): return False; for
\* client in self._reversed_caches: client.set(...)"; the pc-th call.
WriteOrder == << Primary >> \o ReversedCaches

Concurrent_ml_set(c) ==
    /\ callers[c].target = "multilayer" /\ callers[c].at = "write"
    /\ layers' = [layers EXCEPT ![WriteOrder[callers[c].pc]] = ChildSet(@, callers[c].key, callers[c].value)]
    /\ callers' = [callers EXCEPT ![c].pc = @ + 1,
                                  ![c].at = IF callers[c].pc = NLayers THEN "done" ELSE "write"]
    /\ UNCHANGED <<ml_hash, ml_op, ml_ret, ml_calls, rp_vars, dist_vars, mem_vars>>

\* Multilayer.get: "value = self._clients[i].get(key); if value is not
\* None: for j in range(i-1, -1, -1): ...; return value".
Concurrent_ml_scan(c) ==
    LET value == ChildGet(layers[callers[c].pc], callers[c].key) IN
    /\ callers[c].target = "multilayer" /\ callers[c].at = "scan"
    /\ callers' = [callers EXCEPT
                      ![c] = IF value = None
                             THEN [@ EXCEPT !.pc = @ + 1,
                                            !.at = IF callers[c].pc = NLayers THEN "done" ELSE "scan"]
                             ELSE [@ EXCEPT !.found = value,
                                            !.at = IF callers[c].pc = 1 THEN "done" ELSE "promote"]]
    /\ UNCHANGED <<ml_vars, rp_vars, dist_vars, mem_vars>>

\* A promotion that writes the value found into the faster layers.
Promote_writing(c) ==
    /\ layers' = [i \in 1..NLayers |->
                    IF i < callers[c].pc
                    THEN [layers[i] EXCEPT ![callers[c].key] = callers[c].found] ELSE layers[i]]
    /\ callers' = [callers EXCEPT ![c].at = "done"]

\* "self._client[j].set(key, value)": self._client is None, the statement
\* raises TypeError and no layer is written.
Promote(c) ==
    /\ layers' = layers
    /\ callers' = [callers EXCEPT ![c].at = "raised"]

Concurrent_ml_promote(c) ==
    /\ callers[c].target = "multilayer" /\ callers[c].at = "promote"
    /\ Promote(c)
    /\ UNCHANGED <<ml_hash, ml_op, ml_ret, ml_calls, rp_vars, dist_vars, mem_vars>>

\* Replication.set: "for client in self._clients: if not client.set(...):
\* result = False"; the pc-th call.
Concurrent_rp_set(c) ==
    /\ callers[c].target = "replication" /\ callers[c].at = "write"
    /\ rp_clients' = [rp_clients EXCEPT ![callers[c].pc] = ChildSet(@, callers[c].key, callers[c].value)]
    /\ callers' = [callers EXCEPT ![c].pc = @ + 1,
                                  ![c].at = IF callers[c].pc = NChildren THEN "done" ELSE "write"]
    /\ UNCHANGED <<rp_primary, rp_op, rp_ret, rp_calls, ml_vars, dist_vars, mem_vars>>

\* The layers a Multilayer may hold before the two calls: empty, or one
\* value on the primary and on any of the other layers.
StartLayers ==
    {ls \in [1..NLayers -> [Keys -> {None} \cup {{v} : v \in Values}]] :
        \A i \in 1..NLayers : \A k \in Keys : ls[i][k] # None => ls[i][k] = ls[Primary][k]}

MLXInit ==
    /\ layers \in StartLayers
    /\ ml_hash = [i \in 1..NLayers |-> EmptyStore]
    /\ ml_op = NoOp
    /\ ml_ret = RNone
    /\ ml_calls = << >>
    /\ callers \in {<< SetCaller("multilayer", k, v), GetCaller("multilayer", k) >> : k \in Keys, v \in Values}

MLXNext ==
    \/ \E c \in 1..2 : Concurrent_ml_set(c)
    \/ \E c \in 1..2 : Concurrent_ml_scan(c)
    \/ \E c \in 1..2 : Concurrent_ml_promote(c)

RPXInit ==
    /\ RPInit
    /\ callers \in {<< SetCaller("replication", k, v1), SetCaller("replication", k, v2) >> :
                       k \in Keys, v1 \in Values, v2 \in Values}

RPXNext == \E c \in 1..2 : Concurrent_rp_set(c)

\* -------------------------------------------------------- specifications
InitML == MLInit /\ RPIdle /\ DistIdle /\ MemIdle /\ CallersIdle
SpecML == InitML /\ [][MLNext]_vars
SpecMLH == InitML /\ [][MLHNext]_vars
SpecMLC == InitML /\ [][MLCNext]_vars

InitRP == MLInit /\ RPInit /\ DistIdle /\ MemIdle /\ CallersIdle
SpecRP == InitRP /\ [][RPNext]_vars

InitDist == MLInit /\ RPIdle /\ DistInit /\ MemIdle /\ CallersIdle
SpecDist == InitDist /\ [][DistNext]_vars

InitMem == MLInit /\ RPIdle /\ DistIdle /\ MemInit /\ CallersIdle

InitMLX == MLXInit /\ RPIdle /\ DistIdle /\ MemIdle
SpecMLX == InitMLX /\ [][MLXNext]_vars

InitRPX == MLInit /\ RPXInit /\ DistIdle /\ MemIdle
SpecRPX == InitRPX /\ [][RPXNext]_vars
SpecMem == InitMem /\ [][MemNext]_vars

\* ================================================================ claims
LastCall(calls) == calls[Len(calls)]
\* The calls issued to child c, in order.
CallsTo(calls, c) == SelectSeq(calls, LAMBDA e : e.child = c)

\* ---------------------------------------------------------------- C1
\* A get that found the key: the last layer it asked returned a value.
C1_GetHit == ml_op.name = "get" /\ Len(ml_calls) > 0 /\ LastCall(ml_calls).ok

\* C1: Multilayer.get(k) returns the value of the lowest-index layer that
\* holds k and, before returning, has written it into every faster layer
\* (so a second get is satisfied by layer 1, the source's layer 0).
C1_GetPromotes ==
    C1_GetHit =>
        LET i == Len(ml_calls)
            v == ChildGet(layers[i], ml_op.key)
        IN /\ ml_ret = ROpt(v)
           /\ \A j \in 1..(i - 1) : ChildGet(layers[j], ml_op.key) = v

\* ---------------------------------------------------------------- C2
MLWriteOps == {"set", "set_not_overwrite", "set_many", "delete", "delete_many", "clear",
               "hset", "hdel"}

\* C2: every Multilayer write calls the primary first, and when the
\* primary reports failure it returns False having called no other layer.
C2_PrimaryFirst ==
    ml_op.name \in MLWriteOps =>
        /\ Len(ml_calls) >= 1
        /\ ml_calls[1].child = Primary
        /\ (~ml_calls[1].ok => ml_ret = RBool(FALSE) /\ Len(ml_calls) = 1)

\* ---------------------------------------------------------------- C3
\* C3: when the primary's set succeeds, Multilayer.set returns True and
\* has issued the set to every non-primary layer exactly once, whatever
\* the layers before it reported; a layer that reported success holds the
\* value.
C3_SetFireAndForget ==
    (ml_op.name = "set" /\ Len(ml_calls) >= 1 /\ ml_calls[1].ok) =>
        /\ ml_ret = RBool(TRUE)
        /\ \A i \in 1..(NLayers - 1) :
              /\ Len(CallsTo(ml_calls, i)) = 1
              /\ CallsTo(ml_calls, i)[1].op = "set"
              /\ (CallsTo(ml_calls, i)[1].ok => ChildGet(layers[i], ml_op.key) = {ml_op.value})

\* A set whose first non-primary write failed and whose later one succeeded.
C3_Witness ==
    /\ ml_op.name = "set"
    /\ ml_ret = RBool(TRUE)
    /\ Len(ml_calls) = NLayers
    /\ ml_calls[1].ok
    /\ ~ml_calls[2].ok
    /\ ml_calls[3].ok
    /\ ChildGet(layers[ml_calls[2].child], ml_op.key) # {ml_op.value}
    /\ ChildGet(layers[ml_calls[3].child], ml_op.key) = {ml_op.value}

\* ---------------------------------------------------------------- C4
\* C4: Multilayer.incr/decr calls the primary's incr/decr, then delete on
\* every other layer, returns the primary's result, and the next get of
\* the key returns that post-increment value.
C4_IncrInvalidates ==
    (ml_op.name \in {"incr", "decr"}) =>
        /\ Len(ml_calls) = NLayers
        /\ ml_calls[1].child = Primary /\ ml_calls[1].op = ml_op.name
        /\ \A i \in 1..(NLayers - 1) :
              Len(CallsTo(ml_calls, i)) = 1 /\ CallsTo(ml_calls, i)[1].op = "delete"
        /\ (ml_calls[1].ok => ml_ret = ROpt(ChildGet(layers[Primary], ml_op.key)))
        /\ ((\A n \in 1..NLayers : ml_calls[n].ok) => GetResult(ml_op.key) = ml_ret)

\* ---------------------------------------------------------------- C5
RPBoolWriteOps == {"set", "set_not_overwrite", "delete", "delete_many", "clear", "hset", "hdel"}
                      \cup OtherBoolWrites

C6_NoRollbackNoCut ==
    (rp_op.name = "set" /\ Cardinality({i \in 1..Len(rp_calls) : ~rp_calls[i].ok}) = 1) =>
        /\ rp_ret = RBool(FALSE)
        /\ \A c \in 1..NChildren :
              (\A i \in 1..Len(rp_calls) : rp_calls[i].child = c => rp_calls[i].ok)
                  => ChildGet(rp_clients[c], rp_op.key) = {rp_op.value}

\* The first child failed; the children after it hold the value.
C6_Witness ==
    /\ rp_op.name = "set"
    /\ NChildren = 3
    /\ Len(rp_calls) = 3
    /\ ~rp_calls[1].ok /\ rp_calls[2].ok /\ rp_calls[3].ok
    /\ rp_ret = RBool(FALSE)
    /\ ChildGet(rp_clients[1], rp_op.key) # {rp_op.value}
    /\ ChildGet(rp_clients[2], rp_op.key) = {rp_op.value}
    /\ ChildGet(rp_clients[3], rp_op.key) = {rp_op.value}

\* ---------------------------------------------------------------- C7
\* C7: after a Replication.set(k, v) that returned True, a get of k on
\* every child returns v.
C7_SetConverges ==
    (rp_op.name = "set" /\ rp_ret = RBool(TRUE)) =>
        \A c \in 1..NChildren : ChildGet(rp_clients[c], rp_op.key) = {rp_op.value}

\* A set of 2 that every child accepted.
C7_Witness ==
    /\ rp_op.name = "set"
    /\ rp_ret = RBool(TRUE)
    /\ rp_op.value = 2
    /\ \A c \in 1..NChildren : ChildGet(rp_clients[c], rp_op.key) = {2}

\* ---------------------------------------------------------------- C8
\* The signed amount the call about to return was asked to add.
C8_Delta == IF rp_op'.name = "incr" THEN rp_op'.delta ELSE 0 - rp_op'.delta

C8_IncrStep ==
    (rp_op = NoOp /\ rp_op'.name \in {"incr", "decr"}) =>
        LET n == Len(rp_calls')
            k == rp_op'.key
        IN /\ n >= 1
           /\ \A j \in 1..n : rp_calls'[j].child = j /\ rp_calls'[j].op = rp_op'.name
           /\ \A j \in 1..(n - 1) : rp_calls'[j].ok
           /\ IF rp_calls'[n].ok
              THEN /\ n = NChildren
                   /\ rp_ret' = ROpt(ChildGet(rp_clients'[NChildren], k))
              ELSE rp_ret' = RNone
           /\ \A c \in 1..NChildren :
                 ChildGet(rp_clients'[c], k) =
                    IF c <= n /\ rp_calls'[c].ok
                    THEN {ChildIncrValue(rp_clients[c], k, C8_Delta)}
                    ELSE ChildGet(rp_clients[c], k)

\* C8: Replication.incr/decr visits the children in order; when all
\* return a value the last child's value is returned; at the first None
\* it returns None, the children after it are not touched and the
\* children before it keep their increment.
C8_IncrShortCircuit == [][C8_IncrStep]_vars

\* The second child returned None: the first keeps its increment.
C8_Witness ==
    /\ rp_op.name = "incr"
    /\ Len(rp_calls) = 2
    /\ rp_calls[1].ok /\ ~rp_calls[2].ok
    /\ rp_ret = RNone
    /\ ChildGet(rp_clients[1], rp_op.key) = {2}
    /\ ChildGet(rp_clients[3], rp_op.key) = {1}

\* ---------------------------------------------------------------- C9
RPReadOps == {"get", "get_values", "get_key_to_value"} \cup OtherReads

C9_ReadStep ==
    (rp_op = NoOp /\ rp_op'.name \in RPReadOps) =>
        /\ Len(rp_calls') = 1
        /\ rp_calls'[1].child \in 1..NChildren
        /\ rp_calls'[1].op = rp_op'.name
        /\ (rp_primary # None => rp_primary = {rp_calls'[1].child})
        /\ rp_clients' = rp_clients

\* C9: every Replication read is delegated to exactly one child, the
\* primary when one is configured and a configured child otherwise, and
\* changes no child's contents.
C9_ReadOneChild == [][C9_ReadStep]_vars

\* ---------------------------------------------------------------- C10
DistKeyOps == {"set", "get", "delete", "incr", "decr"}

C10_OwnerInTable ==
    \A k \in DistKeys :
        get_client_by_key(k).kind = "client" => get_client_by_key(k).id \in DOMAIN dist_client

C10_CallGoesToOwner ==
    dist_op.name \in DistKeyOps =>
        IF get_client_by_key(dist_op.key).kind = "client"
        THEN Len(dist_calls) = 1 /\ dist_calls[1].child = get_client_by_key(dist_op.key).id
        ELSE dist_calls = << >>

C10_RouteKept == \A k \in DistKeys : get_client_by_key(k)' = get_client_by_key(k)

DistSingleKeyOps ==
    DistKeyOps \cup {"set_not_overwrite", "hset"} \cup DistFalseWrites \cup DistNoneWrites
        \cup DistReads

\* The operations whose contract answers a boolean.
DistBoolWrites == {"set", "set_not_overwrite", "delete", "hset", "expire"} \cup DistFalseWrites

\* C11: a single-key Distribution operation on a key without a route
\* returns False when it is a boolean write and None otherwise, raises
\* nothing and calls no child.
C11_NoRouteFails ==
    (dist_op.name \in DistSingleKeyOps /\ get_client_by_key(dist_op.key) = NoRoute) =>
        /\ dist_calls = << >>
        /\ dist_ret = IF dist_op.name \in DistBoolWrites THEN RBool(FALSE) ELSE RNone

\* ---------------------------------------------------------------- C12
\* n % f for the numeric sub-key n of the key, computed from the key.
C12_Bucket(key) == PyInt(KeyTable(key).group) % dist_config.factor

\* C12: under mod, a set of a key with numeric sub-key n that succeeded
\* left the value on child n % f and on no other child, and get of the
\* key answers the value.
C12_ModStoresOnBucket ==
    (/\ dist_op.name = "set"
     /\ dist_config.method = "mod"
     /\ dist_ret = RBool(TRUE)) =>
        /\ KeyTable(dist_op.key).match /\ IsDecimal(KeyTable(dist_op.key).group)
        /\ C12_Bucket(dist_op.key) \in DOMAIN dist_client
        /\ dist_calls = << Call(C12_Bucket(dist_op.key), "set", TRUE) >>
        /\ \A c \in DOMAIN dist_client :
              ChildGet(dist_client[c], dist_op.key) =
                 IF c = C12_Bucket(dist_op.key) THEN {dist_op.value} ELSE None
        /\ DistGetResult(dist_op.key) = RVal(dist_op.value)

\* Factor 4: the key with sub-key 17 is held by child 1 alone.
C12_Witness ==
    /\ dist_op.name = "set"
    /\ dist_config.method = "mod"
    /\ dist_config.factor = 4
    /\ dist_ret = RBool(TRUE)
    /\ dist_op.key = "user:17:y"
    /\ ChildGet(dist_client[1], "user:17:y") = {dist_op.value}
    /\ ChildGet(dist_client[0], "user:17:y") = None

\* ---------------------------------------------------------------- C13
DistMultiKeyOps == {"set_many", "delete_many", "get_values"}

\* One of the keys of the call about to return has no route.
C13_SomeKeyUnrouted == \E n \in 1..Len(dist_op'.keys) : get_client_by_key(dist_op'.keys[n]) = NoRoute

C13_MultiStep ==
    (dist_op = NoOp /\ dist_op'.name \in DistMultiKeyOps /\ C13_SomeKeyUnrouted) =>
        /\ dist_calls' = << >>
        /\ dist_client' = dist_client
        /\ dist_ret' = IF dist_op'.name = "get_values" THEN RNone ELSE RBool(FALSE)

\* C13: set_many, delete_many and get_values given a key without a route
\* return failure, issue no sub-call and leave every child as it was, the
\* keys that do route included.
C13_NoPartialRouting == [][C13_MultiStep]_vars

\* A set_many of a routed key followed by an unrouted one: nothing stored.
C13_Witness ==
    /\ dist_config.method = "mod"
    /\ dist_op.name = "set_many"
    /\ dist_op.keys = << "user:4:cart", "order:7" >>
    /\ get_client_by_key("user:4:cart") = Owner(0)
    /\ get_client_by_key("order:7") = NoRoute
    /\ dist_ret = RBool(FALSE)
    /\ dist_calls = << >>
    /\ ChildGet(dist_client[0], "user:4:cart") = None

\* ---------------------------------------------------------------- C14
\* A single-key call changes and calls no child but the key's owner.
C14_SingleKeyStep ==
    (dist_op = NoOp /\ dist_op'.name \in DistSingleKeyOps) =>
        /\ \A c \in DOMAIN dist_client :
              get_client_by_key(dist_op'.key) # Owner(c) => dist_client'[c] = dist_client[c]
        /\ \A n \in 1..Len(dist_calls') : get_client_by_key(dist_op'.key) = Owner(dist_calls'[n].child)
        /\ \A c \in DOMAIN dist_client : \A k \in DistKeys \ {dist_op'.key} :
              dist_client'[c][k] = dist_client[c][k]

\* What is held under a key is held by the key's owner and by no other child.
C14_HeldByOwner ==
    \A k \in DistKeys : \A c \in DOMAIN dist_client :
        ChildGet(dist_client[c], k) # None => get_client_by_key(k) = Owner(c)

\* C14: a single-key Distribution operation on k leaves every child other
\* than k's owner unchanged, and the data under one key is never held by
\* several children.
C14_KeyOwnership == [][C14_SingleKeyStep]_vars /\ []C14_HeldByOwner

\* A list write on the key owned by child 1 while child 0 holds another key.
C14_Witness ==
    /\ dist_config.method = "mod"
    /\ dist_op.name = "lpush"
    /\ dist_op.key = "user:17:y"
    /\ dist_ret = RBool(TRUE)
    /\ get_client_by_key("user:17:y") = Owner(1)
    /\ ChildGet(dist_client[1], "user:17:y") # None
    /\ ChildGet(dist_client[0], "user:4:cart") # None
    /\ ChildGet(dist_client[0], "user:17:y") = None

\* ---------------------------------------------------------------- C15
\* C15: a get whose key is held by the fastest layer returns that layer's
\* value having asked no other layer, also when the primary no longer
\* holds the key; in general no layer is asked after the one that hit.
C15_FirstHitWins ==
    ml_op.name = "get" =>
        /\ \A n \in 1..Len(ml_calls) :
              /\ ml_calls[n].child = n /\ ml_calls[n].op = "get"
              /\ (ml_calls[n].ok => n = Len(ml_calls))
        /\ (ChildGet(layers[1], ml_op.key) # None =>
              /\ ml_ret = ROpt(ChildGet(layers[1], ml_op.key))
              /\ Len(ml_calls) = 1)

\* The value is still served by layer 1 after the primary lost the key.
C15_Witness ==
    /\ ml_op.name = "get"
    /\ ChildGet(layers[Primary], ml_op.key) = None
    /\ ChildGet(layers[1], ml_op.key) = {2}
    /\ ml_ret = RVal(2)
    /\ ml_calls = << Call(1, "get", TRUE) >>

\* ---------------------------------------------------------------- C16
\* The fastest layer holding the field when hget is called (0: none).
C16_FirstHit ==
    IF HgetHits(ml_op'.key) = {} THEN 0 ELSE SetMin(HgetHits(ml_op'.key))

C16_HgetStep ==
    (ml_op = NoOp /\ ml_op'.name = "hget") =>
        IF C16_FirstHit = 0
        THEN ml_ret' = RNone /\ ml_hash' = ml_hash
        ELSE /\ ml_ret' = ROpt(ChildGet(ml_hash[C16_FirstHit], ml_op'.key))
             /\ \A j \in 1..(C16_FirstHit - 1) :
                   \A n \in 1..Len(ml_calls') :
                      (ml_calls'[n].child = j /\ ml_calls'[n].op = "hset" /\ ml_calls'[n].ok)
                         => ChildGet(ml_hash'[j], ml_op'.key) =
                               ChildGet(ml_hash[C16_FirstHit], ml_op'.key)
             /\ \A j \in C16_FirstHit..NLayers : ml_hash'[j] = ml_hash[j]

\* C16: hget returns the field value of the fastest layer that has it,
\* having written it with hset into every faster layer, and returns
\* not-found when no layer has the field.
C16_HgetPromotes == [][C16_HgetStep]_vars

\* ---------------------------------------------------------------- C17
MLPrimaryReadOps == {"get_values", "get_key_to_value"} \cup MLPrimaryReads

C17_ReadStep ==
    (ml_op = NoOp /\ ml_op'.name \in MLPrimaryReadOps) =>
        /\ ml_calls' = << Call(Primary, ml_op'.name, TRUE) >>
        /\ layers' = layers
        /\ ml_hash' = ml_hash
        /\ ml_ret' = IF ml_op'.name \in MLPrimaryReads
                     THEN [kind |-> "answer", of |-> ChildGet(layers[NLayers], ml_op'.key)]
                     ELSE [kind |-> "values",
                           of |-> [k \in ml_op'.keys |-> ChildGet(layers[NLayers], k)]]

\* C17: get_values, get_key_to_value, hgetall and the list, set and
\* sorted-set reads of Multilayer call the primary alone, answer what the
\* primary holds and change no layer.
C17_PrimaryOnlyReads == [][C17_ReadStep]_vars

\* get_values answered 2 from the primary while the fastest layer holds 1.
C17_Witness ==
    /\ ml_op.name = "get_values"
    /\ ml_op.keys = {"x"}
    /\ ChildGet(layers[1], "x") = {1}
    /\ ChildGet(layers[NLayers], "x") = {2}
    /\ ml_ret = [kind |-> "values", of |-> [k \in {"x"} |-> {2}]]
    /\ ml_calls = << Call(NLayers, "get_values", TRUE) >>

\* ---------------------------------------------------------------- C18
\* The fastest layer holding the key when get is called (0: none).
C18_Hit ==
    LET hits == {i \in 1..NLayers : layers[i][ml_op'.key] # None}
    IN IF hits = {} THEN 0 ELSE CHOOSE i \in hits : \A j \in hits : i <= j

C18_GetStep ==
    (ml_op = NoOp /\ ml_op'.name = "get") =>
        /\ \A j \in 1..NLayers : (C18_Hit # 0 /\ j >= C18_Hit) => layers'[j] = layers[j]
        /\ \A n \in 1..Len(ml_calls') :
              (C18_Hit # 0 /\ ml_calls'[n].child >= C18_Hit) => ml_calls'[n].op = "get"
        /\ (C18_Hit = 0 =>
              /\ ml_ret' = RNone
              /\ layers' = layers
              /\ \A n \in 1..Len(ml_calls') : ml_calls'[n].op = "get")

\* C18: get writes neither to the layer that hit nor to a slower one, so
\* never to the primary; a get that misses everywhere returns not-found
\* and leaves every layer as it was.
C18_GetFrame == [][C18_GetStep]_vars

\* A get that hit at layer 2 while the primary holds another value.
C18_Witness ==
    /\ ml_op.name = "get"
    /\ Len(ml_calls) = 2
    /\ ml_calls[2].ok
    /\ ChildGet(layers[2], ml_op.key) = {1}
    /\ ChildGet(layers[NLayers], ml_op.key) = {2}

\* ---------------------------------------------------------------- C19
C19_WriteOps == {"set", "set_not_overwrite", "set_many", "delete", "delete_many",
                 "incr", "decr", "hset", "hdel", "clear"}

C19_Identical(clients) == \A i, j \in 1..NChildren : clients[i] = clients[j]

C19_WriteStep ==
    (/\ rp_op = NoOp
     /\ rp_op'.name \in C19_WriteOps
     /\ C19_Identical(rp_clients)
     /\ \A n \in 1..Len(rp_calls') : rp_calls'[n].ok)
    => C19_Identical(rp_clients')

\* C19: a Replication write that starts with children of identical
\* contents and in which every child call reports success ends with
\* children of identical contents; so does, by induction, any sequence of
\* such writes executed one after another.
C19_ReplicasStayIdentical == [][C19_WriteStep]_vars

\* An incr every child accepted, on children that all held the key and
\* all hold the new value.
C19_Witness ==
    /\ rp_op.name = "incr"
    /\ Len(rp_calls) = NChildren
    /\ \A n \in 1..NChildren : rp_calls[n].ok
    /\ \A i \in 1..NChildren : ChildGet(rp_clients[i], rp_op.key) = {2}
    /\ rp_ret = RVal(2)
    /\ C19_Identical(rp_clients)

\* ---------------------------------------------------------------- C20
C20_Ops == {"zremrangebyrank", "zremrangebyscore"}

C20_Largest(counts) ==
    CHOOSE m \in {counts[i] : i \in DOMAIN counts} : \A i \in DOMAIN counts : counts[i] <= m

\* C20: zremrangebyrank and zremrangebyscore call every child once, in
\* order, and return the largest of the counts the children report; the
\* loop over no children returns 0.
C20_MaxOfCounts ==
    /\ ZremLoop(<< >>, 0) = 0
    /\ rp_op.name \in C20_Ops =>
          /\ Len(rp_calls) = NChildren
          /\ \A i \in 1..NChildren : rp_calls[i].child = i /\ rp_calls[i].op = rp_op.name
          /\ rp_ret = RVal(C20_Largest(rp_op.counts))

\* The largest count is neither the last child's nor the sum.
C20_Witness ==
    /\ rp_op.name = "zremrangebyscore"
    /\ rp_op.counts = <<1, 2, 0>>
    /\ rp_ret = RVal(2)

\* ---------------------------------------------------------------- C21
\* The number div and hash_div divide: the numeric sub-key, the key's CRC32.
C21_Dividend(key) ==
    IF dist_config.method = "hash_div" THEN {Crc32(key)}
    ELSE IF KeyTable(key).match /\ IsDecimal(KeyTable(key).group)
    THEN {PyInt(KeyTable(key).group)} ELSE None

C21_Quotient(key) == (CHOOSE n \in C21_Dividend(key) : TRUE) \div dist_config.factor

\* C21: under div and hash_div a key whose dividend is n routes to child
\* floor(n / factor) whenever that id is in the child table, n a multiple
\* of the factor or not.
C21_DivRoutesToQuotient ==
    \A k \in DistKeys :
        (/\ dist_config.method \in {"div", "hash_div"}
         /\ C21_Dividend(k) # None
         /\ C21_Quotient(k) \in DOMAIN dist_client)
        => get_client_by_key(k) = Owner(C21_Quotient(k))

\* ---------------------------------------------------------------- C22
C22_Ops == {"set_many", "delete_many"}

C22_AllRouted == \A n \in 1..Len(dist_op.keys) : get_client_by_key(dist_op.keys[n]).kind = "client"

C22_Owners == {get_client_by_key(dist_op.keys[n]).id : n \in 1..Len(dist_op.keys)}

\* The keys of the call that child c owns.
C22_KeysOf(c) ==
    {dist_op.keys[n] : n \in {m \in 1..Len(dist_op.keys) : get_client_by_key(dist_op.keys[m]).id = c}}

C22_Grouped ==
    /\ Len(dist_calls) = Cardinality(C22_Owners)
    /\ \A c \in C22_Owners :
          \E j \in 1..Len(dist_calls) :
              /\ dist_calls[j].child = c
              /\ dist_calls[j].op = dist_op.name
              /\ dist_calls[j].keys = C22_KeysOf(c)
    /\ dist_ret = RBool(\A j \in 1..Len(dist_calls) : dist_calls[j].ok)

\* C22: when every key routes, set_many and delete_many issue one sub-call
\* per distinct owning child, each with exactly the keys that child owns,
\* and return True exactly when every sub-call reported success.
C22_OneSubCallPerOwner == (dist_op.name \in C22_Ops /\ C22_AllRouted) => C22_Grouped

\* ---------------------------------------------------------------- C23
\* Distribution: the pop goes to the key's owner, to no child without one.
C23_DistributionOneChild ==
    dist_op.name \in BlockingPops =>
        /\ Len(dist_calls) <= 1
        /\ \A n \in 1..Len(dist_calls) : get_client_by_key(dist_op.key) = Owner(dist_calls[n].child)

\* Multilayer: the pop goes to the primary.
C23_MultilayerPrimaryOnly ==
    ml_op.name \in BlockingPops => ml_calls = << Call(NLayers, ml_op.name, ml_calls[1].ok) >>

\* C23: a blocking pop through a composite is issued to one child and to
\* no more than one in a call; stated here for Replication.
C23_BlockingPopOneChild ==
    rp_op.name \in BlockingPops =>
        Cardinality({rp_calls[n].child : n \in 1..Len(rp_calls)}) = 1

\* ---------------------------------------------------------------- C24
\* The last set of the key a get asks for.
C24_LastSet == CHOOSE w \in mem_written[mem_op'.key] : TRUE

\* The number of seconds the set asked for: the default when none was given.
C24_Seconds == IF C24_LastSet.timeout = None THEN mem_timeout
               ELSE CHOOSE t \in C24_LastSet.timeout : TRUE

C24_GetStep ==
    (mem_op = NoOp /\ mem_op'.name = "get" /\ mem_written[mem_op'.key] # None) =>
        mem_ret' = IF C24_LastSet.timeout = {0} \/ mem_now <= C24_LastSet.at + C24_Seconds
                   THEN RVal(C24_LastSet.value)
                   ELSE RNone

\* C24: a get returns the value of the key's last set when that set gave
\* timeout 0, whatever the time, or when now <= set-time + t, t being the
\* timeout given or the adapter's default when none was given; it returns
\* None once now > set-time + t.
C24_TimeoutClock == [][C24_GetStep]_vars

\* A get one second too late: the set gave 1 second at instant 1.
C24_Witness ==
    /\ mem_op.name = "get"
    /\ mem_written[mem_op.key] = {[value |-> PyNumber(1), at |-> 1, timeout |-> {1}]}
    /\ mem_now = 3
    /\ mem_ret = RNone

\* ---------------------------------------------------------------- C25
\* Multilayer: the primary's remove-by-score is called.
C25_MultilayerByScore ==
    ml_op.name = "zremrangebyscore" =>
        /\ Len(ml_calls) = 1
        /\ ml_calls[1].child = NLayers
        /\ ml_calls[1].op = "zremrangebyscore"

\* C25: zremrangebyscore on a key that routes calls the remove-by-score
\* operation of the owning child, never its remove-by-rank; stated here
\* for Distribution.
C25_RemoveByScore ==
    (dist_op.name = "zremrangebyscore" /\ get_client_by_key(dist_op.key).kind = "client") =>
        /\ Len(dist_calls) = 1
        /\ get_client_by_key(dist_op.key) = Owner(dist_calls[1].child)
        /\ dist_calls[1].op = "zremrangebyscore"

\* ---------------------------------------------------------------- C26
\* What construction fixes: Distribution's strategy, factor and child
\* table, Replication's children and primary, Multilayer's layers (the
\* primary is the last of them).
C26_Composition ==
    <<dist_config, DOMAIN dist_client, rp_primary, DOMAIN rp_clients, DOMAIN layers, DOMAIN ml_hash>>

C27_WriteOrder ==
    (ml_op.name \in MLWriteOps /\ ml_ret = RBool(TRUE)) =>
        /\ Len(ml_calls) = NLayers
        /\ \A n \in 1..NLayers : ml_calls[n].child = NLayers + 1 - n

\* A set that succeeded on every layer.
C27_Witness ==
    /\ ml_op.name = "set"
    /\ ml_ret = RBool(TRUE)
    /\ Len(ml_calls) = NLayers
    /\ \A n \in 1..NLayers : ml_calls[n].ok
    /\ \A i \in 1..NLayers : ChildGet(layers[i], ml_op.key) = {ml_op.value}

\* ---------------------------------------------------------------- C28
\* C28: Distribution.hset on a key that routes issues one call, the hset
\* of the owning child, and returns what the child reports, so that the
\* owner holds the field afterwards.
C28_HsetDelegates ==
    (dist_op.name = "hset" /\ get_client_by_key(dist_op.key).kind = "client") =>
        /\ Len(dist_calls) = 1
        /\ get_client_by_key(dist_op.key) = Owner(dist_calls[1].child)
        /\ dist_calls[1].op = "hset"
        /\ dist_ret = RBool(dist_calls[1].ok)

\* ---------------------------------------------------------------- C29
\* The merged result: for every requested key, what the key's owner holds.
C29_Merged ==
    /\ Len(dist_ret.of) = Len(dist_op.keys)
    /\ \A n \in 1..Len(dist_op.keys) :
          dist_ret.of[n] = ChildGet(dist_client[get_client_by_key(dist_op.keys[n]).id], dist_op.keys[n])

\* C29: when every key routes, get_values queries each owning child once
\* with exactly the keys it owns, and returns either None (a sub-call
\* returned None) or, for every requested key, the value its owner holds.
C29_GetValuesGrouped ==
    (dist_op.name = "get_values" /\ C22_AllRouted) =>
        /\ dist_ret.kind \in {"values", "None"}
        /\ Len(dist_calls) <= Cardinality(C22_Owners)
        /\ \A j \in 1..Len(dist_calls) :
              /\ dist_calls[j].op = "get_values"
              /\ dist_calls[j].child \in C22_Owners
              /\ dist_calls[j].keys = C22_KeysOf(dist_calls[j].child)
        /\ (dist_ret.kind = "values" =>
              /\ Len(dist_calls) = Cardinality(C22_Owners)
              /\ C29_Merged)

\* ---------------------------------------------------------------- C30
\* What the key of the call holds when the call is made.
C30_Held == mem_store[mem_op'.key]

\* The key holds a value that has not expired: it never expires, or its
\* instant of expiration is not before now.
C30_Live ==
    /\ C30_Held # None
    /\ \/ (CHOOSE e \in C30_Held : TRUE).timeout = None
       \/ \E t \in (CHOOSE e \in C30_Held : TRUE).timeout : t >= mem_now

C30_Step ==
    (mem_op = NoOp /\ mem_op'.name = "set_not_overwrite") =>
        IF C30_Live
        THEN /\ mem_ret' = RBool(FALSE)
             /\ mem_store'[mem_op'.key] = C30_Held
        ELSE /\ mem_ret' = RBool(TRUE)
             /\ mem_store'[mem_op'.key] # None
             /\ (CHOOSE e \in mem_store'[mem_op'.key] : TRUE).value = mem_op'.value

\* C30: set_not_overwrite on a key holding a value that has not expired
\* returns False and leaves the value and its expiration as they were; on
\* a key that is absent or whose entry has expired it stores the value and
\* returns True.
C30_SetNotOverwrite == [][C30_Step]_vars

\* A refusal at the very instant of expiration: value 1 was set at instant
\* 1 for one second, and set_not_overwrite of 2 at instant 2 is refused.
C30_Witness ==
    /\ mem_op.name = "set_not_overwrite"
    /\ mem_op.value = PyNumber(2)
    /\ mem_ret = RBool(FALSE)
    /\ mem_now = 2
    /\ mem_written[mem_op.key] = {[value |-> PyNumber(1), at |-> 1, timeout |-> {1}]}
    /\ mem_store[mem_op.key] = {_Value({2}, PyNumber(1))}

\* ---------------------------------------------------------------- C31
C31_Ops == {"incr", "decr"}

\* The amount added: decr(k, d) is incr(k, -d).
C31_Delta == IF mem_op'.name = "incr" THEN mem_op'.delta ELSE 0 - mem_op'.delta

\* The entry the key holds when the call is made, and whether it counts:
\* present and not past its instant of expiration.
C31_Held == CHOOSE e \in mem_store[mem_op'.key] : TRUE

C31_Present ==
    /\ mem_store[mem_op'.key] # None
    /\ (C31_Held.timeout = None \/ \E t \in C31_Held.timeout : t >= mem_now)

\* n + d for the number n the key holds (an int or a float).
C31_Sum == [C31_Held.value EXCEPT !.n = IF C31_Held.value.type = "float"
                                          THEN @ + 2 * C31_Delta ELSE @ + C31_Delta]

C31_IncrStep ==
    (mem_op = NoOp /\ mem_op'.name \in C31_Ops) =>
        IF ~C31_Present
        THEN /\ mem_store'[mem_op'.key] # None
             /\ (CHOOSE e \in mem_store'[mem_op'.key] : TRUE).value = PyNumber(C31_Delta)
             /\ mem_ret' = RVal(PyNumber(C31_Delta))
        ELSE C31_Held.value.type \in {"int", "float"} =>
             /\ mem_store'[mem_op'.key] = {_Value(C31_Held.timeout, C31_Sum)}
             /\ mem_ret' = RVal(C31_Sum)

\* C31: incr on an absent or expired key stores the delta and returns it;
\* on a key holding a number n it stores n + d under the same instant of
\* expiration and returns n + d; decr(k, d) does what incr(k, -d) does.
C31_IncrSemantics == [][C31_IncrStep]_vars

\* The same for the keys that hold an int.
C31_IntegersOnly ==
    [][(mem_op = NoOp /\ mem_op'.name \in C31_Ops /\ C31_Present /\ C31_Held.value.type = "float")
          \/ C31_IncrStep]_vars

\* ---------------------------------------------------------------- C32
\* The value is neither a number nor a text that parses as an integer.
C32_NotCountable == C31_Held.value.type \in {"word", "list"}

C32_IncrStep ==
    (mem_op = NoOp /\ mem_op'.name = "incr" /\ C31_Present /\ C32_NotCountable) =>
        /\ mem_ret' = RNone
        /\ mem_store' = mem_store

\* C32: incr on a key whose value has not expired and is neither a number
\* nor a text that parses as an integer returns None and leaves the entry,
\* value and expiration, as it was.
C32_IncrRefusesNonNumber == [][C32_IncrStep]_vars

\* An incr refused on a text that is no decimal, the entry still there.
C32_Witness ==
    /\ mem_op.name = "incr"
    /\ mem_ret = RNone
    /\ mem_store[mem_op.key] = {_Value({2}, PyWord)}
    /\ mem_now = 2

\* ---------------------------------------------------------------- C33
\* The entry held under key k is past its instant of expiration.
C33_Stale(k) ==
    /\ mem_store[k] # None
    /\ \E e \in mem_store[k] : e.timeout # None /\ \E t \in e.timeout : t < mem_now

C33_ReadStep ==
    /\ (mem_op = NoOp /\ mem_op'.name = "get") =>
          /\ (mem_ret'.kind = "value" =>
                 /\ ~C33_Stale(mem_op'.key)
                 /\ mem_store[mem_op'.key] = mem_store'[mem_op'.key]
                 /\ \E e \in mem_store[mem_op'.key] : e.value = mem_ret'.v)
          /\ (C33_Stale(mem_op'.key) => mem_ret' = RNone /\ mem_store'[mem_op'.key] = None)
    /\ (mem_op = NoOp /\ mem_op'.name = "get_key_to_value") =>
          \A k \in DOMAIN mem_ret'.of :
              /\ ~C33_Stale(k)
              /\ \E e \in mem_store[k] : e.value = mem_ret'.of[k]

\* What _trim leaves of the store: all the entries that have not expired,
\* as they were, and nothing else but entries that were there.
C33_TrimKeepsLive ==
    \A k \in Keys :
        /\ (mem_store[k] # None /\ ~C33_Stale(k)) => Trimmed[k] = mem_store[k]
        /\ Trimmed[k] \in {mem_store[k], None}

\* C33: get and get_key_to_value never return a value whose instant of
\* expiration is before now, whether or not _trim has run since; get
\* removes such an entry; _trim removes no entry that has not expired.
C33_NoExpiredReads == [][C33_ReadStep]_vars /\ []C33_TrimKeepsLive

\* A get that found the key expired and removed it, no _trim having run.
C33_Witness ==
    /\ mem_op.name = "get"
    /\ mem_ret = RNone
    /\ mem_written[mem_op.key] # None
    /\ mem_store[mem_op.key] = None
    /\ mem_last_trim = 0

\* ---------------------------------------------------------------- C34
\* The children whose sub-call was made and reported success.
C34_Written == {dist_calls'[j].child : j \in {n \in 1..Len(dist_calls') : dist_calls'[n].ok}}

C34_FailStep ==
    (/\ dist_op = NoOp
     /\ dist_op'.name \in C22_Ops
     /\ \E j \in 1..Len(dist_calls') : ~dist_calls'[j].ok) =>
        /\ dist_ret' = RBool(FALSE)
        /\ \A j \in 1..Len(dist_calls') : dist_calls'[j].ok <=> j < Len(dist_calls')
        /\ \A c \in DOMAIN dist_client \ C34_Written : dist_client'[c] = dist_client[c]
        /\ dist_op'.name = "set_many" =>
              \A j \in 1..(Len(dist_calls') - 1) : \A k \in dist_calls'[j].keys :
                  ChildGet(dist_client'[dist_calls'[j].child], k) = {dist_op'.value}

C35_Step ==
    (ml_op = NoOp /\ ml_op'.name = "set_not_overwrite") =>
        /\ ChildGet(layers[Primary], ml_op'.key) # None =>
              /\ ml_ret' = RBool(FALSE)
              /\ layers' = layers
        /\ ml_calls'[1].ok =>
              /\ ml_ret' = RBool(TRUE)
              /\ Len(ml_calls') = NLayers
              /\ \A n \in 2..NLayers :
                    /\ ml_calls'[n].op = "set"
                    /\ ml_calls'[n].ok => ChildGet(layers'[ml_calls'[n].child], ml_op'.key) = {ml_op'.value}
              /\ ChildGet(layers'[Primary], ml_op'.key) = {ml_op'.value}

\* C35: set_not_overwrite returns False and changes no layer when the
\* primary already holds the key; when the primary accepts, every other
\* layer is sent a plain set of the value, whatever it held, and every
\* layer whose set succeeded holds the value: all of them when all succeed.
C35_SetNotOverwrite == [][C35_Step]_vars

\* An accepted set_not_overwrite after which every layer holds the value.
C35_Witness ==
    /\ ml_op.name = "set_not_overwrite"
    /\ ml_ret = RBool(TRUE)
    /\ \A n \in 1..Len(ml_calls) : ml_calls[n].ok
    /\ \A i \in 1..NLayers : ChildGet(layers[i], ml_op.key) = {ml_op.value}

\* ---------------------------------------------------------------- C36
\* The promotion writes of a get: the calls after the scan, "set(key,
\* value)" with no timeout, which the receiving layer takes as its default.
C36_PromotionSets == SelectSeq(ml_calls, LAMBDA e : e.op = "set")

\* C36: a get that finds the key at a layer above the fastest has sent
\* every faster layer one set of the value carrying no timeout, so that
\* each of them holds a copy under its own default timeout.
C36_PromotedWithDefault ==
    (ml_op.name = "get" /\ FirstHit(ml_op.key) > 1 /\ ml_calls # << >>) =>
        /\ Len(C36_PromotionSets) = FirstHit(ml_op.key) - 1
        /\ \A j \in 1..(FirstHit(ml_op.key) - 1) :
              \E n \in 1..Len(C36_PromotionSets) : C36_PromotionSets[n].child = j

\* ---------------------------------------------------------------- C37
C37_Step ==
    (ml_op = NoOp /\ ml_op'.name \in MLPrimaryWrites) =>
        /\ \A i \in 1..(NLayers - 1) : layers'[i] = layers[i]
        /\ ml_hash' = ml_hash
        /\ Len(ml_calls') = 1
        /\ ml_calls'[1].child = Primary
        /\ ml_calls'[1].op = ml_op'.name

\* C37: the list, set and sorted-set mutations and expire are one call on
\* the primary: every other layer holds afterwards what it held before,
\* its copy of the key included.
C37_PrimaryOnlyMutations == [][C37_Step]_vars

\* An lpush that changed the primary while the fastest layer kept its
\* copy of the key.
C37_Witness ==
    /\ ml_op.name = "lpush"
    /\ ml_calls = << Call(Primary, "lpush", TRUE) >>
    /\ ChildGet(layers[Primary], ml_op.key) = {2}
    /\ ChildGet(layers[1], ml_op.key) = {1}

\* ---------------------------------------------------------------- C38
C38_Ops == {"set", "set_not_overwrite", "set_many", "get", "delete", "delete_many",
            "incr", "decr", "clear"}

\* A non-primary layer that holds a key holds the value the primary holds
\* for it; no layer holds a key the primary lacks.
C38_Coherent ==
    \A i \in 1..(NLayers - 1) : \A k \in Keys :
        ChildGet(layers[i], k) # None => ChildGet(layers[i], k) = ChildGet(layers[Primary], k)

\* A scalar operation through the composite none of whose child calls
\* failed: a get's misses and the refusal of set_not_overwrite by a primary
\* holding the key are answers, not failures.
C38_CleanCall ==
    /\ ml_op = NoOp
    /\ ml_op'.name \in C38_Ops
    /\ \/ ml_op'.name = "get"
       \/ \A n \in 1..Len(ml_calls') : ml_calls'[n].ok
       \/ ml_op'.name = "set_not_overwrite" /\ ChildGet(layers[Primary], ml_op'.key) # None

C38_Step == (C38_Coherent /\ C38_CleanCall) => C38_Coherent'

\* C38: with one caller, no expiry and every child call succeeding, the
\* layers are coherent when empty and every scalar operation through the
\* composite takes coherent layers to coherent layers; so they are
\* coherent after any sequence of such operations.
C38_LayersCoherent == C38_Coherent /\ [][C38_Step]_vars

\* After set(x, 1) and incr(x, 1): the primary holds 2, the other layers
\* have given their copy up.
C38_Witness ==
    /\ ml_op.name = "incr"
    /\ ml_ret = RVal(2)
    /\ ChildGet(layers[Primary], ml_op.key) = {2}
    /\ \A i \in 1..(NLayers - 1) : ChildGet(layers[i], ml_op.key) = None
    /\ Len(ml_calls) = NLayers

C40_ChildrenAgree ==
    (callers[1].target = "replication" /\ Returned(1) /\ Returned(2)) =>
        \A i, j \in 1..NChildren :
            ChildGet(rp_clients[i], callers[1].key) = ChildGet(rp_clients[j], callers[1].key)

====
